---- MODULE Spec2Model ----
(***************************************************************************)
(* Model of the project / session / message store of claudecodeui:        *)
(*   server/utils/pathUtils.js  - path normalisation and containment       *)
(*   server/projects.js         - project directory resolver, session      *)
(*                                aggregator, message pagination, session  *)
(*                                deletion, Codex directory-walk cache     *)
(* Each component has its own specification (SpecPaths, SpecDelete, ...)   *)
(* over the shared variables below; variables a specification does not     *)
(* use keep their initial value.                                           *)
(***************************************************************************)
EXTENDS Integers, Sequences, FiniteSets, TLC

VARIABLES
    pathA,        \* pathUtils: first argument of the call under test
    pathB,        \* pathUtils: second argument of the call under test
    pathRet,      \* pathUtils: result of the call (op "none" before it)
    files,        \* ~/.claude/projects/<project>: file name -> text (lines)
    mtimeOrder,   \* the project's files, most recently modified first
    call,         \* the last store operation: arguments, prior files, result
    codexFiles,   \* ~/.codex/sessions: file name -> text (lines)
    config,       \* ~/.claude/project-config.json: the project's entry
    projectDirectoryCache,  \* the project's cached directory, Null if none
    scan,         \* the extractProjectDirectory call in flight, if any
    windowFirst,  \* first path resolved since the last config or log change
    debounceTimer,          \* the watcher's debounce timer is pending
    isGetProjectsRunning,   \* the watcher's refresh is running
    cachedBeforeConfig,     \* the cache entry predates the last config change
    changePending,          \* a log change seen by the watcher, cache not yet cleared
    codexJsonlCache,        \* the cached listing of the Codex log root
    codexJsonlCachePromise, \* index of the in-flight scan's promise, 0 if null
    promises,     \* the promises of the scans started so far
    callers,      \* the getCodexSessions calls: position, promise, result
    now,          \* Date.now()
    codexModels,  \* CODEX_MODELS: the option values and the default
    storedModel,  \* codexModel: the stored model of the call under test
    cliModel,     \* codexModel: the CLI model of the call under test
    modelRet,     \* codexModel: result of the call (op "none" before it)
    activeCodexSessions,  \* openai-codex: session id -> tracked entry
    queries,      \* openai-codex: the queryCodex calls, position and history
    abortRet,     \* openai-codex: the abortCodexSession call just made
    cliRoute,     \* routes/codex: the CLI route of the request
    responded,    \* routes/codex: the responder's flag
    headersSent,  \* routes/codex: res.headersSent
    responses,    \* routes/codex: the statuses written to res, in order
    procEvents,   \* routes/codex: the child's events so far, in order
    ptySessionsMap, \* index: the entry of ptySessionsMap under the one key
    shellSockets, \* index: the shell WebSockets and their closures
    ptyTimers,    \* index: the timers the close handlers have set
    ptys,         \* index: the PTY processes spawned so far
    ptyLog        \* history: what the close and timer handlers did

pathVars == <<pathA, pathB, pathRet>>
storeVars == <<files, mtimeOrder, call, codexFiles>>
resolveVars == <<config, projectDirectoryCache, scan, windowFirst,
                 debounceTimer, isGetProjectsRunning, cachedBeforeConfig,
                 changePending>>

cacheVars == <<codexJsonlCache, codexJsonlCachePromise, promises, callers, now>>

modelVars == <<codexModels, storedModel, cliModel, modelRet>>

queryVars == <<activeCodexSessions, queries, abortRet>>

responderVars == <<cliRoute, responded, headersSent, responses, procEvents>>

ptyVars == <<ptySessionsMap, shellSockets, ptyTimers, ptys, ptyLog>>

\* the state of the processes the server drives
liveVars == <<queryVars, responderVars, ptyVars>>

vars == <<pathVars, storeVars, resolveVars, cacheVars, modelVars, liveVars>>

\* what the actions of one component leave alone
besidesPaths == <<storeVars, resolveVars, cacheVars, modelVars, liveVars>>
besidesStore == <<pathVars, resolveVars, cacheVars, modelVars, liveVars>>
besidesResolve == <<pathVars, cacheVars, modelVars, liveVars>>
besidesCache == <<pathVars, files, mtimeOrder, call, resolveVars, modelVars, liveVars>>
besidesModel == <<pathVars, storeVars, resolveVars, cacheVars, liveVars>>
besidesQuery == <<pathVars, storeVars, resolveVars, cacheVars, modelVars,
                  responderVars, ptyVars>>
besidesResponder == <<pathVars, storeVars, resolveVars, cacheVars, modelVars,
                      queryVars, ptyVars>>
besidesPty == <<pathVars, storeVars, resolveVars, cacheVars, modelVars,
                queryVars, responderVars>>

----------------------------------------------------------------------------
(* Generic helpers *)

Max(a, b) == IF a >= b THEN a ELSE b
Min(a, b) == IF a <= b THEN a ELSE b

\* Array.prototype.slice(start, end) / String.prototype.slice on a sequence,
\* with JavaScript's treatment of negative and out-of-range indices
\* (0-based start, exclusive end).
JsSlice(s, start, end) ==
    LET n  == Len(s)
        from == IF start < 0 THEN Max(n + start, 0) ELSE Min(start, n)
        to   == IF end < 0 THEN Max(n + end, 0) ELSE Min(end, n)
    IN  IF to <= from THEN << >> ELSE SubSeq(s, from + 1, to)

StartsWith(s, prefix) ==
    /\ Len(s) >= Len(prefix)
    /\ SubSeq(s, 1, Len(prefix)) = prefix

EndsWith(s, suffix) ==
    /\ Len(s) >= Len(suffix)
    /\ SubSeq(s, Len(s) - Len(suffix) + 1, Len(s)) = suffix

IsPrefixSeq(p, s) == StartsWith(s, p)

----------------------------------------------------------------------------
(* server/utils/pathUtils.js on a POSIX platform.  A path string is a      *)
(* sequence of characters; Undefined stands for a non-string argument.     *)

MaxPathLen == 4      \* longest path string explored
MaxPairLen == 6      \* longest combined length of the two arguments

Undefined == <<"undefined">>
PathAlphabet == {"/", ".", "a", "\\", " "}
PathStrings == UNION {[1..n -> PathAlphabet] : n \in 0..MaxPathLen}

isWindows == FALSE           \* process.platform === 'win32'
sep == <<"/">>               \* path.sep
DotDot == <<".", ".">>
ProcessCwd == <<"/", "a">>   \* process.cwd(), used by path.resolve

RECURSIVE TrimStart(_)
TrimStart(s) == IF s # << >> /\ Head(s) = " " THEN TrimStart(Tail(s)) ELSE s

RECURSIVE TrimEnd(_)
TrimEnd(s) ==
    IF s # << >> /\ s[Len(s)] = " " THEN TrimEnd(SubSeq(s, 1, Len(s) - 1)) ELSE s

\* String.prototype.trim
Trim(s) == TrimEnd(TrimStart(s))

\* normalized.replaceAll('\\', '/')
ReplaceAllBackslash(s) == [i \in 1..Len(s) |-> IF s[i] = "\\" THEN "/" ELSE s[i]]

\* split a string at '/' into its segments (empty segments included)
RECURSIVE SplitSep(_)
SplitSep(s) ==
    IF \A i \in 1..Len(s) : s[i] # "/"
    THEN <<s>>
    ELSE LET k == CHOOSE i \in 1..Len(s) :
                      /\ s[i] = "/"
                      /\ \A j \in 1..(i - 1) : s[j] # "/"
         IN  <<SubSeq(s, 1, k - 1)>> \o SplitSep(SubSeq(s, k + 1, Len(s)))

\* join segments with '/'
RECURSIVE JoinSep(_)
JoinSep(segs) ==
    IF segs = << >> THEN << >>
    ELSE IF Len(segs) = 1 THEN segs[1]
    ELSE segs[1] \o sep \o JoinSep(Tail(segs))

\* node:path normalizeString: resolves '.' and '..' segments
RECURSIVE NormalizeSegs(_, _, _)
NormalizeSegs(segs, allowAboveRoot, res) ==
    IF segs = << >> THEN res
    ELSE LET s == Head(segs)
             rest == Tail(segs)
         IN  IF s = << >> \/ s = <<".">>
             THEN NormalizeSegs(rest, allowAboveRoot, res)
             ELSE IF s = DotDot
             THEN IF res # << >> /\ res[Len(res)] # DotDot
                  THEN NormalizeSegs(rest, allowAboveRoot, SubSeq(res, 1, Len(res) - 1))
                  ELSE IF allowAboveRoot
                  THEN NormalizeSegs(rest, allowAboveRoot, Append(res, s))
                  ELSE NormalizeSegs(rest, allowAboveRoot, res)
             ELSE NormalizeSegs(rest, allowAboveRoot, Append(res, s))

normalizeString(p, allowAboveRoot) == JoinSep(NormalizeSegs(SplitSep(p), allowAboveRoot, << >>))

\* path.isAbsolute
pathIsAbsolute(p) == p # << >> /\ p[1] = "/"

\* path.normalize
pathNormalize(p) ==
    IF p = << >> THEN <<".">>
    ELSE LET isAbs == pathIsAbsolute(p)
             trailing == p[Len(p)] = "/"
             body == normalizeString(p, ~isAbs)
         IN  IF body = << >>
             THEN IF isAbs THEN sep
                  ELSE IF trailing THEN <<".", "/">> ELSE <<".">>
             ELSE LET b2 == IF trailing THEN body \o sep ELSE body
                  IN  IF isAbs THEN sep \o b2 ELSE b2

\* path.resolve with one argument
pathResolve(p) ==
    LET full == IF pathIsAbsolute(p) THEN p
                ELSE IF p = << >> THEN ProcessCwd
                ELSE ProcessCwd \o sep \o p
    IN  sep \o normalizeString(full, FALSE)

\* path.parse(p).root
pathRoot(p) == IF pathIsAbsolute(p) THEN sep ELSE << >>

\* the segments of an absolute, resolved path ('/' has none)
AbsSegs(p) == NormalizeSegs(SplitSep(p), FALSE, << >>)

RECURSIVE CommonPrefixLen(_, _)
CommonPrefixLen(a, b) ==
    IF a = << >> \/ b = << >> \/ Head(a) # Head(b) THEN 0
    ELSE 1 + CommonPrefixLen(Tail(a), Tail(b))

\* path.relative(from, to)
pathRelative(from, to) ==
    IF from = to THEN << >>
    ELSE LET f == pathResolve(from)
             t == pathResolve(to)
         IN  IF f = t THEN << >>
             ELSE LET fs == AbsSegs(f)
                      ts == AbsSegs(t)
                      k  == CommonPrefixLen(fs, ts)
                      ups == [i \in 1..(Len(fs) - k) |-> DotDot]
                  IN  JoinSep(ups \o SubSeq(ts, k + 1, Len(ts)))

stripWindowsLongPathPrefix(inputPath) ==
    IF ~isWindows \/ inputPath = Undefined THEN inputPath
    ELSE IF StartsWith(inputPath, <<"\\", "\\", "?", "\\", "U", "N", "C", "\\">>)
         THEN <<"\\", "\\">> \o SubSeq(inputPath, 9, Len(inputPath))
    ELSE IF StartsWith(inputPath, <<"\\", "\\", "?", "\\">>)
         THEN SubSeq(inputPath, 5, Len(inputPath))
    ELSE inputPath

\* while (normalized.length > root.length && normalized.endsWith(path.sep))
RECURSIVE TrimTrailingSep(_, _)
TrimTrailingSep(p, root) ==
    IF Len(p) > Len(root) /\ EndsWith(p, sep)
    THEN TrimTrailingSep(SubSeq(p, 1, Len(p) - 1), root)
    ELSE p

normalizeFsPathForCompare(inputPath) ==
    IF inputPath = Undefined THEN << >>
    ELSE IF Trim(inputPath) = << >> THEN << >>
    ELSE LET stripped == stripWindowsLongPathPrefix(Trim(inputPath))
             seps == ReplaceAllBackslash(stripped)
             resolved == pathResolve(pathNormalize(seps))
         IN  TrimTrailingSep(resolved, pathRoot(resolved))

isPathSameOrInside(parentPath, candidatePath) ==
    LET parent == normalizeFsPathForCompare(parentPath)
        candidate == normalizeFsPathForCompare(candidatePath)
    IN  IF parent = << >> \/ candidate = << >> THEN FALSE
        ELSE LET relative == pathRelative(parent, candidate)
             IN  IF relative = << >> THEN TRUE
                 ELSE IF pathIsAbsolute(relative) THEN FALSE
                 ELSE /\ ~StartsWith(relative, DotDot)
                      /\ ~StartsWith(relative, DotDot \o sep)

pathsBelongToSameProject(projectPath, sessionCwd) ==
    \/ isPathSameOrInside(projectPath, sessionCwd)
    \/ isPathSameOrInside(sessionCwd, projectPath)

PathLen(p) == IF p = Undefined THEN 0 ELSE Len(p)

PathsInit ==
    /\ pathA \in PathStrings \cup {Undefined}
    /\ pathB \in PathStrings \cup {Undefined}
    /\ PathLen(pathA) + PathLen(pathB) <= MaxPairLen
    /\ pathRet = [op |-> "none"]

\* one call of isPathSameOrInside(pathA, pathB)
CallIsPathSameOrInside ==
    /\ pathRet.op = "none"
    /\ pathRet' = [op |-> "inside", value |-> isPathSameOrInside(pathA, pathB)]
    /\ UNCHANGED <<pathA, pathB, besidesPaths>>

\* one call of pathsBelongToSameProject(pathA, pathB) and of its mirror image
CallPathsBelongToSameProject ==
    /\ pathRet.op = "none"
    /\ pathRet' = [op |-> "same",
                   value |-> pathsBelongToSameProject(pathA, pathB),
                   swapped |-> pathsBelongToSameProject(pathB, pathA)]
    /\ UNCHANGED <<pathA, pathB, besidesPaths>>

PathsNext == CallIsPathSameOrInside \/ CallPathsBelongToSameProject

----------------------------------------------------------------------------
(* Claims about pathUtils *)

\* containment as the claims state it: both paths normalise to non-empty
\* paths and the candidate's segments extend the parent's segments
LiesAtOrBelow(parentPath, candidatePath) ==
    LET parent == normalizeFsPathForCompare(parentPath)
        candidate == normalizeFsPathForCompare(candidatePath)
    IN  /\ parent # << >>
        /\ candidate # << >>
        /\ IsPrefixSeq(AbsSegs(parent), AbsSegs(candidate))

\* C7: isPathSameOrInside(parent, candidate) is true exactly when both paths
\* normalise to non-empty paths and the candidate equals the parent or lies
\* below it (no '..' step leads from parent to candidate), also for a child
\* whose name merely begins with two dots.
C7_InsideIffAtOrBelow ==
    pathRet.op = "inside" => (pathRet.value <=> LiesAtOrBelow(pathA, pathB))

\* C8: pathsBelongToSameProject is symmetric and true whenever one path is
\* the other or a subdirectory of the other.
C8_SymmetricContainment ==
    pathRet.op = "same" =>
        /\ pathRet.value = pathRet.swapped
        /\ (LiesAtOrBelow(pathA, pathB) \/ LiesAtOrBelow(pathB, pathA)) => pathRet.value


----------------------------------------------------------------------------
(* The log directory of one Claude project (~/.claude/projects/<name>).    *)
(* A file's text is the sequence of its lines as text.split('\n') gives    *)
(* them: a text ending in a newline ends with an empty line, the empty     *)
(* text is one empty line, and << >> stands for a file that does not       *)
(* exist.  A line is a record of what JSON.parse and the readers see.      *)

None == "none"          \* a field the JSON object does not have
Null == "null"          \* the JSON value null

\* fs.readdir order of the directory's entries
FileNames == <<"a.jsonl", "agent-b.jsonl", "c.jsonl">>
FileSet == {FileNames[i] : i \in 1..Len(FileNames)}

\* file.endsWith('.jsonl')
IsJsonl(f) == f \in {"a.jsonl", "agent-b.jsonl", "c.jsonl"}
\* file.startsWith('agent-')
IsAgentFile(f) == f \in {"agent-b.jsonl"}

EmptyLine == [kind |-> "empty", sid |-> None, type |-> None, uuid |-> None,
              parent |-> None, leaf |-> None, ts |-> 0, cwd |-> None,
              role |-> None, text |-> None, apiErr |-> FALSE]
\* a line of blanks only
BlankLine == [EmptyLine EXCEPT !.kind = "ws"]
\* a line that is not JSON
BadLine == [EmptyLine EXCEPT !.kind = "bad"]
\* a JSON object line; ts = 0 stands for an entry without timestamp
Entry(sid, type, uuid, parent, ts, cwd, role, text) ==
    [EmptyLine EXCEPT !.kind = "json", !.sid = sid, !.type = type, !.uuid = uuid,
                      !.parent = parent, !.ts = ts, !.cwd = cwd, !.role = role,
                      !.text = text]
\* the first part of a line whose write is not finished yet
Partial(l) == [l EXCEPT !.kind = "partial"]

\* line.trim() is non-empty
LineHasText(l) == l.kind \notin {"empty", "ws"}
\* JSON.parse(line) succeeds
Parses(l) == l.kind = "json"

FileExists(f) == files[f] # << >>
EndsWithNewline(text) == Len(text) >= 2 /\ text[Len(text)].kind = "empty"
TextIsEmpty(text) == text = <<EmptyLine>>

\* content.split('\n').filter(line => line.trim()); the lines readline
\* yields that pass `if (line.trim())`
NonBlankLines(text) == SelectSeq(text, LineHasText)

\* lines.join('\n') + (lines.length > 0 ? '\n' : '')
JoinLines(lines) == IF Len(lines) > 0 THEN Append(lines, EmptyLine) ELSE <<EmptyLine>>

\* fs.readdir(projectDir), files.filter(file => file.endsWith('.jsonl'))
ReadDirJsonl(fs) ==
    LET Listed(f) == fs[f] # << >> /\ IsJsonl(f) IN SelectSeq(FileNames, Listed)

\* ... .filter(file => file.endsWith('.jsonl') && !file.startsWith('agent-'))
ReadDirSessionFiles(fs) ==
    LET Listed(f) == fs[f] # << >> /\ IsJsonl(f) /\ ~IsAgentFile(f)
    IN  SelectSeq(FileNames, Listed)

\* a write to f makes it the most recently modified file
Touch(order, f) ==
    LET NotF(g) == g # f IN <<f>> \o SelectSeq(order, NotF)

NoCall == [op |-> "none"]

\* the .jsonl files below ~/.codex/sessions in the order a depth-first walk
\* in fs.readdir order meets them
CodexFileNames == <<"rollout-1-s1.jsonl", "rollout-2-s12.jsonl">>
CodexFileSet == {CodexFileNames[i] : i \in 1..Len(CodexFileNames)}

StoreInit ==
    /\ files = [f \in FileSet |-> << >>]
    /\ mtimeOrder = << >>
    /\ call = NoCall
    /\ codexFiles = [f \in CodexFileSet |-> << >>]

\* the lines written so far, blank ones included
LineCount(text) == Len(SelectSeq(text, LAMBDA l : l.kind # "empty"))
TotalLines == LineCount(files["a.jsonl"]) + LineCount(files["agent-b.jsonl"])
              + LineCount(files["c.jsonl"])

\* the assistant process appends one complete line to a log file
AppendTo(f, l) ==
    /\ files[f] = << >> \/ TextIsEmpty(files[f]) \/ EndsWithNewline(files[f])
    /\ files' = [files EXCEPT ![f] =
                    IF files[f] = << >> THEN <<l, EmptyLine>>
                    ELSE SubSeq(files[f], 1, Len(files[f]) - 1) \o <<l, EmptyLine>>]
    /\ mtimeOrder' = Touch(mtimeOrder, f)
    /\ call' = NoCall
    /\ UNCHANGED codexFiles

\* the assistant process has written the first part of a line only
AppendPartialTo(f, l) ==
    /\ files[f] = << >> \/ TextIsEmpty(files[f]) \/ EndsWithNewline(files[f])
    /\ files' = [files EXCEPT ![f] =
                    IF files[f] = << >> THEN <<Partial(l)>>
                    ELSE SubSeq(files[f], 1, Len(files[f]) - 1) \o <<Partial(l)>>]
    /\ mtimeOrder' = Touch(mtimeOrder, f)
    /\ call' = NoCall
    /\ UNCHANGED codexFiles

\* ... and then writes the rest of the line and its newline
CompleteLine(f) ==
    /\ files[f] # << >>
    /\ files[f][Len(files[f])].kind = "partial"
    /\ files' = [files EXCEPT ![f] =
                    SubSeq(files[f], 1, Len(files[f]) - 1)
                    \o <<[files[f][Len(files[f])] EXCEPT !.kind = "json"], EmptyLine>>]
    /\ mtimeOrder' = Touch(mtimeOrder, f)
    /\ call' = NoCall
    /\ UNCHANGED codexFiles

----------------------------------------------------------------------------
(* deleteSession *)

MaxDeleteLines == 3     \* most lines in the directory (SpecDelete)

\* KeepsLine with a catch branch that drops malformed lines
KeepsLineParsedOnly(l, sessionId) == Parses(l) /\ l.sid # sessionId

DeleteSids == {"s1", "s2"}
DeleteFiles == {"a.jsonl", "agent-b.jsonl"}
DeletePool ==
    {Entry("s1", "user", None, None, t, None, "user", "hi") : t \in {1, 2}}
    \cup {Entry("s2", "user", None, None, 1, None, "user", "hi")}
    \cup {Entry(None, "summary", None, None, 0, None, None, "hi"), BadLine, BlankLine}

\* data.sessionId === sessionId inside try/catch
LineOfSession(l, sessionId) == Parses(l) /\ l.sid = sessionId

\* the filter callback: keep what is not of the session, and malformed lines
KeepsLine(l, sessionId) == ~LineOfSession(l, sessionId)

RECURSIVE DeleteFromFirst(_, _, _)
\* the loop over jsonlFiles: rewrite the first file that has the session
DeleteFromFirst(fs, names, sessionId) ==
    IF names = << >> THEN [ok |-> FALSE, fs |-> fs, file |-> None]
    ELSE LET file == Head(names)
             lines == NonBlankLines(fs[file])
             hasSession == \E i \in 1..Len(lines) : LineOfSession(lines[i], sessionId)
             filteredLines == SelectSeq(lines, LAMBDA l : KeepsLine(l, sessionId))
         IN  IF hasSession
             THEN [ok |-> TRUE,
                   fs |-> [fs EXCEPT ![file] = JoinLines(filteredLines)],
                   file |-> file]
             ELSE DeleteFromFirst(fs, Tail(names), sessionId)

\* ok = FALSE stands for the thrown Error (no files, or session not found)
deleteSession(fs, sessionId) ==
    LET jsonlFiles == ReadDirJsonl(fs)
    IN  IF Len(jsonlFiles) = 0
        THEN [ok |-> FALSE, fs |-> fs, file |-> None]
        ELSE DeleteFromFirst(fs, jsonlFiles, sessionId)

DeleteSession(sessionId) ==
    LET r == deleteSession(files, sessionId)
    IN  /\ files' = r.fs
        /\ mtimeOrder' = IF r.ok THEN Touch(mtimeOrder, r.file) ELSE mtimeOrder
        /\ call' = [op |-> "deleteSession", sid |-> sessionId, ok |-> r.ok,
                    file |-> r.file, pre |-> files]
        /\ UNCHANGED codexFiles

DeleteAppend ==
    /\ \E f \in DeleteFiles, l \in DeletePool :
        /\ TotalLines < MaxDeleteLines
        /\ AppendTo(f, l)
    /\ UNCHANGED besidesStore

DeleteAppendPartial ==
    /\ \E f \in DeleteFiles :
        /\ TotalLines < MaxDeleteLines
        /\ AppendPartialTo(f, Entry("s1", "user", None, None, 1, None, "user", "hi"))
    /\ UNCHANGED besidesStore

DeleteComplete ==
    /\ \E f \in DeleteFiles : CompleteLine(f)
    /\ UNCHANGED besidesStore

DeleteCall ==
    /\ \E s \in DeleteSids : DeleteSession(s)
    /\ UNCHANGED besidesStore

DeleteNext ==
    \/ DeleteAppend
    \/ DeleteAppendPartial
    \/ DeleteComplete
    \/ DeleteCall

----------------------------------------------------------------------------
(* Claims about deleteSession *)

HasLineOfSession(text, sessionId) ==
    \E i \in 1..Len(text) : LineOfSession(text[i], sessionId)

DeleteReturned == call.op = "deleteSession" /\ call.ok

\* C4: after deleteSession(project, s) has returned successfully no log file
\* of the project contains a line whose sessionId is s, also when the
\* session's lines are spread over several .jsonl files.
C4_NoLineOfSessionLeft ==
    DeleteReturned => \A f \in FileSet : ~HasLineOfSession(files[f], call.sid)

\* C5: deleteSession leaves everything else in place: the rewritten file
\* holds the lines of the other sessions and the unparsable lines (every
\* line with text that is not of the session), unchanged and in their
\* order; a file without the session is not modified; the rewritten file
\* ends with a newline exactly if it is not empty.
C5_DeleteFrame ==
    call.op = "deleteSession" =>
        /\ \A f \in FileSet :
              ~HasLineOfSession(call.pre[f], call.sid) => files[f] = call.pre[f]
        /\ call.ok =>
              /\ NonBlankLines(files[call.file])
                    = SelectSeq(call.pre[call.file],
                                LAMBDA l : LineHasText(l) /\ ~(l.kind = "json" /\ l.sid = call.sid))
              /\ EndsWithNewline(files[call.file]) <=> ~TextIsEmpty(files[call.file])
              /\ files[call.file] # << >>

\* a deletion that left a line of another session and an unparsable line
C5_Witness ==
    /\ DeleteReturned
    /\ \E i, j \in 1..Len(files[call.file]) :
          /\ files[call.file][i].kind = "json"
          /\ files[call.file][j].kind \in {"bad", "partial"}

----------------------------------------------------------------------------
(* getSessionMessages *)

MaxMessageLines == 3    \* most lines in the directory (SpecMessages)
MaxLimit == 3           \* largest limit requested
MaxOffset == 4          \* largest offset requested
NoLimit == 0 - 1        \* limit = null: the call without pagination

\* new Date(entry.timestamp || 0): an entry without timestamp sorts as 0
SortKey(m) == m.ts

RECURSIVE InsertBeforeEqual(_, _)
InsertBeforeEqual(sorted, m) ==
    IF sorted = << >> THEN <<m>>
    ELSE IF SortKey(Head(sorted)) < SortKey(m)
    THEN <<Head(sorted)>> \o InsertBeforeEqual(Tail(sorted), m)
    ELSE <<m>> \o sorted

RECURSIVE InsertByKey(_, _)
\* insert m behind every element whose key is not greater (stable)
InsertByKey(sorted, m) ==
    IF sorted = << >> THEN <<m>>
    ELSE IF SortKey(Head(sorted)) <= SortKey(m)
    THEN <<Head(sorted)>> \o InsertByKey(Tail(sorted), m)
    ELSE <<m>> \o sorted

RECURSIVE SortByTimestamp(_)
\* messages.sort((a, b) => new Date(a.timestamp || 0) - new Date(b.timestamp || 0))
SortByTimestamp(ms) ==
    IF ms = << >> THEN << >>
    ELSE InsertByKey(SortByTimestamp(SubSeq(ms, 1, Len(ms) - 1)), ms[Len(ms)])

RECURSIVE CollectMessages(_, _, _)
\* the loop over jsonlFiles and their lines: entries of the session
CollectMessages(fs, names, sessionId) ==
    IF names = << >> THEN << >>
    ELSE SelectSeq(NonBlankLines(fs[Head(names)]),
                   LAMBDA l : LineOfSession(l, sessionId))
         \o CollectMessages(fs, Tail(names), sessionId)

\* the pagination block shared by getSessionMessages and
\* getCodexSessionMessages
PageFromEnd(sortedMessages, limit, offset) ==
    LET total == Len(sortedMessages)
        startIndex == Max(0, total - offset - limit)
        endIndex == total - offset
    IN  [messages |-> JsSlice(sortedMessages, startIndex, endIndex),
         total |-> total,
         hasMore |-> startIndex > 0]

\* limit = NoLimit: the call without limit, which returns the whole array
getSessionMessages(fs, sessionId, limit, offset) ==
    LET jsonlFiles == ReadDirSessionFiles(fs)
    IN  IF Len(jsonlFiles) = 0
        THEN [messages |-> << >>, total |-> 0, hasMore |-> FALSE]
        ELSE LET sortedMessages ==
                     SortByTimestamp(CollectMessages(fs, jsonlFiles, sessionId))
             IN  IF limit = NoLimit
                 THEN [messages |-> sortedMessages, total |-> Len(sortedMessages),
                       hasMore |-> FALSE]
                 ELSE PageFromEnd(sortedMessages, limit, offset)

MessageSids == {"s1", "s2"}

\* a message entry of session sid; its uuid tells the lines written apart
Uuids == <<"u1", "u2", "u3", "u4", "u5", "u6", "u7", "u8">>
MessageLine(sid, t) ==
    Entry(sid, "user", Uuids[TotalLines + 1], Null, t, None, "user", "hi")

CodexIsEmpty == \A f \in CodexFileSet : codexFiles[f] = << >>
ClaudeIsEmpty == \A f \in FileSet : files[f] = << >>

\* (the logs of one provider at a time are explored)
MessagesAppend ==
    /\ TotalLines < MaxMessageLines
    /\ CodexIsEmpty
    /\ \E f \in FileSet :
          \/ \E t \in 0..2 : AppendTo(f, MessageLine("s1", t))
          \/ AppendTo(f, MessageLine("s2", 1))
          \/ AppendTo(f, BadLine)
    /\ UNCHANGED besidesStore

\* one request per state of the logs: a read changes nothing
\* the route handlers' try branch: res.json(result); their catch branch
\* (status 500) is taken when the reader throws, which neither reader does
RespondJson(result) == [status |-> 200, error |-> None, body |-> result]

GetSessionMessages ==
    /\ call = NoCall
    /\ \E f \in FileSet : files[f] # << >>
    /\ \E sid \in MessageSids, limit \in (0..MaxLimit) \cup {NoLimit}, offset \in 0..MaxOffset :
          /\ limit = NoLimit => offset = 0
          /\ call' = [op |-> "getSessionMessages", sid |-> sid, limit |-> limit,
                      offset |-> offset,
                      ret |-> getSessionMessages(files, sid, limit, offset),
                      all |-> getSessionMessages(files, sid, NoLimit, 0).messages,
                      read |-> CollectMessages(files, ReadDirSessionFiles(files), sid),
                      response |-> RespondJson(
                                      getSessionMessages(files, sid, limit, offset))]
    /\ UNCHANGED <<files, mtimeOrder, codexFiles, besidesStore>>

----------------------------------------------------------------------------
(* getCodexSessionMessages *)

\* a line of a Codex session log: entry.type, entry.payload.type, ...
CodexLine(type, ptype, role, text, ts, callId) ==
    [kind |-> "json", type |-> type, ptype |-> ptype, role |-> role,
     text |-> text, ts |-> ts, callId |-> callId, id |-> None, cwd |-> None]
CodexBadLine ==
    [kind |-> "bad", type |-> None, ptype |-> None, role |-> None,
     text |-> None, ts |-> 0, callId |-> None, id |-> None, cwd |-> None]
CodexEmptyLine == [CodexBadLine EXCEPT !.kind = "empty"]

\* the first line of a session log: the session_meta record with payload.id
SessionMeta(id) ==
    [CodexLine("session_meta", None, None, None, 1, None) EXCEPT !.id = id]
\* the Codex CLI names a log rollout-<time>-<session id>.jsonl
IdInName(name) == IF name = "rollout-1-s1.jsonl" THEN "s1" ELSE "s12"

\* entry.name.includes(sessionId)
NameIncludes(name, sessionId) ==
    \/ name = "rollout-1-s1.jsonl" /\ sessionId \in {"s1"}
    \/ name = "rollout-2-s12.jsonl" /\ sessionId \in {"s1", "s12"}

\* findSessionFile: the first file of the walk whose name includes the id
findSessionFile(cfs, sessionId) ==
    LET hits == SelectSeq(CodexFileNames,
                          LAMBDA f : cfs[f] # << >> /\ NameIncludes(f, sessionId))
    IN  IF hits = << >> THEN None ELSE Head(hits)

\* textContent?.includes('<environment_context>')
IsEnvironmentContext(text) == text = "<environment_context>"
\* textContent?.trim() is non-empty
HasContent(text) == text \notin {None, "", " "}

NoMessage == [key |-> << >>, type |-> None, ts |-> 0, role |-> None,
              content |-> None, callId |-> None]

\* the message a line yields and its duplicate key, or NoMessage
CodexMessageOf(entry) ==
    IF entry.type = "response_item" /\ entry.ptype = "message"
    THEN LET role == IF entry.role = None THEN "assistant" ELSE entry.role
         IN  IF IsEnvironmentContext(entry.text) \/ ~HasContent(entry.text) THEN NoMessage
             ELSE [key |-> <<"msg", entry.ts, role, entry.text>>,
                   type |-> IF role = "user" THEN "user" ELSE "assistant",
                   ts |-> entry.ts, role |-> role, content |-> entry.text,
                   callId |-> None]
    ELSE IF entry.type = "event_msg" /\ entry.ptype = "user_message"
            /\ entry.text \notin {None, ""}
    THEN IF IsEnvironmentContext(entry.text) THEN NoMessage
         ELSE [key |-> <<"user", entry.ts, entry.text>>,
               type |-> "user", ts |-> entry.ts, role |-> "user",
               content |-> entry.text, callId |-> None]
    ELSE IF entry.type = "response_item" /\ entry.ptype = "reasoning"
    THEN IF ~HasContent(entry.text) THEN NoMessage
         ELSE [key |-> <<"think", entry.ts, entry.text>>,
               type |-> "thinking", ts |-> entry.ts, role |-> "assistant",
               content |-> entry.text, callId |-> None]
    ELSE IF entry.type = "response_item" /\ entry.ptype = "function_call"
    THEN [key |-> <<"tool_use", entry.ts, entry.text, entry.callId>>,
          type |-> "tool_use", ts |-> entry.ts, role |-> None,
          content |-> entry.text, callId |-> entry.callId]
    ELSE IF entry.type = "response_item" /\ entry.ptype = "function_call_output"
    THEN [key |-> <<"tool_result", entry.ts, entry.callId>>,
          type |-> "tool_result", ts |-> entry.ts, role |-> None,
          content |-> entry.text, callId |-> entry.callId]
    ELSE NoMessage

RECURSIVE CodexCollect(_, _, _)
\* the loop over the file's lines with the `seen` set of keys
CodexCollect(lines, seen, messages) ==
    IF lines = << >> THEN messages
    ELSE LET entry == Head(lines)
             m == IF entry.kind = "json" THEN CodexMessageOf(entry) ELSE NoMessage
         IN  IF m.type = None \/ m.key \in seen
             THEN CodexCollect(Tail(lines), seen, messages)
             ELSE CodexCollect(Tail(lines), seen \cup {m.key},
                               Append(messages, [x \in DOMAIN m \ {"key"} |-> m[x]]))

\* the messages pushed by the loop over the session file, in push order
CodexRead(cfs, sessionId) ==
    LET sessionFilePath == findSessionFile(cfs, sessionId)
    IN  IF sessionFilePath = None THEN << >>
        ELSE CodexCollect(SelectSeq(cfs[sessionFilePath],
                                    LAMBDA l : l.kind \notin {"empty", "ws"}),
                          {}, << >>)

getCodexSessionMessages(cfs, sessionId, limit, offset) ==
    LET sessionFilePath == findSessionFile(cfs, sessionId)
    IN  IF sessionFilePath = None
        THEN [messages |-> << >>, total |-> 0, hasMore |-> FALSE]
        ELSE LET messages == SortByTimestamp(CodexRead(cfs, sessionId))
             IN  IF limit # NoLimit
                 THEN PageFromEnd(messages, limit, offset)
                 ELSE [messages |-> messages, total |-> Len(messages),
                       hasMore |-> FALSE]

CodexSids == {"s1", "s12"}
CodexPool ==
    {CodexLine("response_item", "message", "assistant", x, t, None) :
         x \in {"hi", "yo"}, t \in 0..2}
    \cup {CodexLine("response_item", "message", "user", "hi", 1, None),
          CodexLine("event_msg", "user_message", None, "hi", 1, None),
          CodexBadLine}

\* the lines of the logs after their session_meta records
CodexLinesOf(text) == SelectSeq(text, LAMBDA l : l.type # "session_meta")
CodexLineCount ==
    Len(CodexLinesOf(codexFiles["rollout-1-s1.jsonl"]))
        + Len(CodexLinesOf(codexFiles["rollout-2-s12.jsonl"]))

\* parseCodexSessionFile(filePath).id: the id of the last session_meta
\* record, None when the file has none
parseCodexSessionFile(text) ==
    LET metas == SelectSeq(text, LAMBDA l : l.kind = "json" /\ l.type = "session_meta")
    IN  IF metas = << >> THEN None ELSE metas[Len(metas)].id

\* deleteCodexSession: the file it unlinks, the first of the walk whose
\* recorded id is sessionId; None when it throws
deleteCodexSession(cfs, sessionId) ==
    LET hits == SelectSeq(CodexFileNames,
                          LAMBDA f : cfs[f] # << >>
                                     /\ parseCodexSessionFile(cfs[f]) = sessionId)
    IN  IF hits = << >> THEN None ELSE Head(hits)

\* the Codex CLI appends a line to a session log; a new log starts with its
\* session_meta record
CodexAppendTo(f, l) ==
    /\ codexFiles' = [codexFiles EXCEPT ![f] =
                         IF codexFiles[f] = << >> THEN <<SessionMeta(IdInName(f)), l>>
                         ELSE Append(codexFiles[f], l)]
    /\ call' = NoCall
    /\ UNCHANGED <<files, mtimeOrder>>

CodexAppend ==
    /\ CodexLineCount < MaxMessageLines
    /\ ClaudeIsEmpty
    /\ \E f \in CodexFileSet, l \in CodexPool : CodexAppendTo(f, l)
    /\ UNCHANGED besidesStore

GetCodexSessionMessages ==
    /\ call = NoCall
    /\ ~CodexIsEmpty
    /\ \E sid \in CodexSids, limit \in (0..MaxLimit) \cup {NoLimit}, offset \in 0..MaxOffset :
          /\ limit = NoLimit => offset = 0
          /\ call' = [op |-> "getCodexSessionMessages", sid |-> sid, limit |-> limit,
                      offset |-> offset,
                      ret |-> getCodexSessionMessages(codexFiles, sid, limit, offset),
                      all |-> getCodexSessionMessages(codexFiles, sid, NoLimit, 0).messages,
                      read |-> CodexRead(codexFiles, sid),
                      file |-> findSessionFile(codexFiles, sid),
                      response |-> RespondJson(
                                      getCodexSessionMessages(codexFiles, sid, limit,
                                                              offset))]
    /\ UNCHANGED <<files, mtimeOrder, codexFiles, besidesStore>>

MessagesNext ==
    \/ MessagesAppend
    \/ GetSessionMessages
    \/ CodexAppend
    \/ GetCodexSessionMessages

----------------------------------------------------------------------------
(* Claims about message pagination *)

\* elements from..to (0-based, inclusive) of a list; empty when to < from
Range0(list, from, to) == SubSeq(list, from + 1, to + 1)

PagedCall ==
    /\ call.op \in {"getSessionMessages", "getCodexSessionMessages"}
    /\ call.limit # NoLimit

\* C1: with N messages and limit L > 0, offset 0 returns the last min(L, N)
\* messages in chronological order, offset L returns the messages just
\* before them (indices max(0, N-2L) .. N-L-1), and for every k with
\* k*L <= N offset k*L returns the index range [max(0, N-(k+1)L), N-k*L).
C1_TailPagination ==
    (PagedCall /\ call.limit > 0) =>
        LET N == Len(call.all)
            L == call.limit
        IN  /\ call.offset = 0 =>
                 call.ret.messages = Range0(call.all, N - Min(L, N), N - 1)
            /\ call.offset = L =>
                 call.ret.messages = Range0(call.all, Max(0, N - 2 * L), N - L - 1)
            /\ \A k \in 0..MaxOffset :
                 (call.offset = k * L /\ k * L <= N) =>
                     call.ret.messages
                         = Range0(call.all, Max(0, N - (k + 1) * L), N - k * L - 1)


MessagesReturned == call.op \in {"getSessionMessages", "getCodexSessionMessages"}

\* the session asked for exists: some log line of the project carries its
\* id, or a Codex log is named after it
SessionKnown ==
    IF call.op = "getSessionMessages"
    THEN \E f \in FileSet : HasLineOfSession(files[f], call.sid)
    ELSE findSessionFile(codexFiles, call.sid) # None

\* C18: a message fetch for a session id that does not exist is answered
\* with a NotFound error, not with a successful empty result.
C18_UnknownSessionNotFound ==
    (MessagesReturned /\ ~SessionKnown) => call.response.error = "NotFound"

\* C30: the messages returned by getCodexSessionMessages(id) are read from
\* the log whose recorded session id equals id, the file deleteCodexSession(id)
\* would remove; an id that is only a part of another log's name gets none
\* of that log's messages.
C30_ExactLookup ==
    call.op = "getCodexSessionMessages" =>
        /\ call.file = deleteCodexSession(codexFiles, call.sid)
        /\ deleteCodexSession(codexFiles, call.sid) = None => call.all = << >>

\* the file read is the first of the walk whose name contains the id
C30_LookupByName ==
    call.op = "getCodexSessionMessages" =>
        /\ call.file # None => NameIncludes(call.file, call.sid)
        /\ (call.sid = "s12" \/ codexFiles["rollout-1-s1.jsonl"] # << >>)
               => call.file = deleteCodexSession(codexFiles, call.sid)

\* C24: for every limit >= 0 and offset >= 0 a page holds at most limit
\* messages, and an offset at or beyond the total gives an empty page.
C24_PageWithinLimit ==
    PagedCall =>
        /\ Len(call.ret.messages) <= call.limit
        /\ call.offset >= call.ret.total => call.ret.messages = << >>

\* the page is within its limit whenever the offset is within the total
C24_WithinTotal ==
    (PagedCall /\ call.offset <= call.ret.total) =>
        /\ Len(call.ret.messages) <= call.limit
        /\ call.offset = call.ret.total => call.ret.messages = << >>

\* what the readers do instead: the unknown session yields the empty page
C18_UnknownSessionEmpty ==
    (MessagesReturned /\ ~SessionKnown)
    => /\ call.response.status = 200
       /\ call.response.body.messages = << >>
       /\ call.response.body.total = 0
       /\ ~call.response.body.hasMore

\* C12: in every returned list the timestamps are non-decreasing (a message
\* without timestamp counts as the earliest), and messages with equal
\* timestamps appear in the order in which they were read from the logs.
C12_ChronologicalStable ==
    MessagesReturned =>
        LET page == call.ret.messages
            WithKey(list, k) == SelectSeq(list, LAMBDA m : SortKey(m) = k)
        IN  /\ \A i \in 1..(Len(page) - 1) : SortKey(page[i]) <= SortKey(page[i + 1])
            /\ \A i \in 1..Len(call.read) :
                 WithKey(call.all, SortKey(call.read[i]))
                     = WithKey(call.read, SortKey(call.read[i]))
            /\ Len(call.all) = Len(call.read)
            /\ \E a \in 0..Len(call.all) :
                 page = SubSeq(call.all, a + 1, a + Len(page))

\* three messages read out of order, two of them with the same timestamp
C12_Witness ==
    /\ MessagesReturned
    /\ call.limit = NoLimit
    /\ Len(call.read) = 3
    /\ call.all # call.read
    /\ \E i \in 1..2 : /\ SortKey(call.all[i]) = SortKey(call.all[i + 1])
                       /\ call.all[i] # call.all[i + 1]


\* the (timestamp, role, content) triple of a message
Triple(m) == <<m.ts, m.role, m.content>>

\* C13: the list returned by getCodexSessionMessages never contains two
\* messages with the same (timestamp, role, content) triple, whichever
\* record kinds they were logged as, and every record that yields a message
\* has its triple in the list.
C13_NoDuplicateTriples ==
    (call.op = "getCodexSessionMessages") =>
        LET all == call.all
            file == findSessionFile(codexFiles, call.sid)
        IN  /\ \A i, j \in 1..Len(all) :
                 (i # j /\ all[i].role # None) => Triple(all[i]) # Triple(all[j])
            /\ file # None =>
                 \A k \in 1..Len(codexFiles[file]) :
                    LET l == codexFiles[file][k]
                    IN  (l.kind = "json" /\ CodexMessageOf(l).type # None) =>
                            \E i \in 1..Len(all) :
                                Triple(all[i]) = Triple(CodexMessageOf(l))

----------------------------------------------------------------------------
(* parseJsonlSessions, getSessions *)

MaxSessionLines == 3
MaxSessionLimit == 2
MaxSessionOffset == 2

NewSession == "New Session"
\* a summary or message text that starts with '{ "'
JsonText == "{ \"subtasks\": [] }"
\* the same object as JSON.stringify writes it: '{' directly followed by the key
CompactJsonText == "{\"subtasks\":[]}"
\* a message text of more than 50 characters, and its first 50 followed by '...'
LongText == "a message text that is longer than fifty characters in all"
LongTextCut == "a message text that is longer than fifty character..."
\* message content that is an array without a text part
ToolResultContent == "[tool_result]"
\* new Date() at the time of the parse: later than every logged timestamp
Now == 9

\* summary.startsWith('{ "')
StartsWithJsonOpen(t) == t = JsonText
\* the isSystemMessage test of a user text
IsSystemMessage(t) == t \in {"Warmup", "Caveat: x", "Invalid API key"}
\* the isSystemAssistantMessage test
IsSystemAssistantMessage(t) == t \in {"Invalid API key"}
\* lastMessage.length > 50 ? lastMessage.substring(0, 50) + '...' : lastMessage
Truncate50(t) == IF t = LongText THEN LongTextCut ELSE t
\* a value is truthy
Truthy(t) == t \notin {None, Null, ""}

NewSessionRecord(entry) ==
    [id |-> entry.sid, summary |-> NewSession, messageCount |-> 0,
     lastActivity |-> Now, cwd |-> IF Truthy(entry.cwd) THEN entry.cwd ELSE "",
     lastUserMessage |-> Null, lastAssistantMessage |-> Null,
     isGrouped |-> FALSE, groupSize |-> 0, groupSessions |-> << >>]

\* position of the session with this id in a list, 0 if none
IndexOfSession(sessions, id) ==
    IF \E i \in 1..Len(sessions) : sessions[i].id = id
    THEN CHOOSE i \in 1..Len(sessions) : sessions[i].id = id
    ELSE 0

\* pendingSummaries.has / get / set; the map is a set of <<leafUuid, summary>>
PendingHas(pending, uuid) == \E p \in pending : p[1] = uuid
PendingGet(pending, uuid) == (CHOOSE p \in pending : p[1] = uuid)[2]
PendingSet(pending, uuid, summary) ==
    {p \in pending : p[1] # uuid} \cup {<<uuid, summary>>}

\* what one entry with a sessionId does to its session record
UpdateSession(session, entry, pending) ==
    LET s1 == IF session.summary = NewSession /\ Truthy(entry.parent)
                 /\ PendingHas(pending, entry.parent)
              THEN [session EXCEPT !.summary = PendingGet(pending, entry.parent)]
              ELSE session
        s2 == IF entry.type = "summary" /\ Truthy(entry.text)
              THEN [s1 EXCEPT !.summary = entry.text]
              ELSE s1
        s3 == IF entry.role = "user" /\ Truthy(entry.text)
              THEN IF entry.text # ToolResultContent /\ ~IsSystemMessage(entry.text)
                   THEN [s2 EXCEPT !.lastUserMessage = entry.text]
                   ELSE s2
              ELSE IF entry.role = "assistant" /\ Truthy(entry.text)
              THEN IF entry.apiErr THEN s2
                   ELSE IF entry.text # ToolResultContent
                           /\ ~IsSystemAssistantMessage(entry.text)
                   THEN [s2 EXCEPT !.lastAssistantMessage = entry.text]
                   ELSE s2
              ELSE s2
        s4 == [s3 EXCEPT !.messageCount = @ + 1]
    IN  IF entry.ts > 0 THEN [s4 EXCEPT !.lastActivity = entry.ts] ELSE s4

RECURSIVE ParseLines(_, _, _, _)
\* the readline loop of parseJsonlSessions
ParseLines(lines, sessions, entries, pending) ==
    IF lines = << >> THEN [sessions |-> sessions, entries |-> entries]
    ELSE LET entry == Head(lines)
         IN  IF ~Parses(entry) THEN ParseLines(Tail(lines), sessions, entries, pending)
             ELSE
               LET pending1 == IF entry.type = "summary" /\ Truthy(entry.text)
                                  /\ ~Truthy(entry.sid) /\ Truthy(entry.leaf)
                               THEN PendingSet(pending, entry.leaf, entry.text)
                               ELSE pending
                   withNew == IF Truthy(entry.sid)
                                 /\ IndexOfSession(sessions, entry.sid) = 0
                              THEN Append(sessions, NewSessionRecord(entry))
                              ELSE sessions
                   i == IndexOfSession(withNew, entry.sid)
                   sessions1 == IF Truthy(entry.sid)
                                THEN [withNew EXCEPT
                                        ![i] = UpdateSession(@, entry, pending1)]
                                ELSE withNew
               IN  ParseLines(Tail(lines), sessions1, Append(entries, entry), pending1)

\* the final summary of a session that still has the default one
FinalSummary(session) ==
    IF session.summary = NewSession
    THEN LET lastMessage == IF Truthy(session.lastUserMessage)
                            THEN session.lastUserMessage
                            ELSE session.lastAssistantMessage
         IN  IF Truthy(lastMessage)
             THEN [session EXCEPT !.summary = Truncate50(lastMessage)]
             ELSE session
    ELSE session

NotJsonSummary(session) == ~StartsWithJsonOpen(session.summary)

parseJsonlSessions(text) ==
    LET parsed == ParseLines(NonBlankLines(text), << >>, << >>, {})
        final == [i \in 1..Len(parsed.sessions) |-> FinalSummary(parsed.sessions[i])]
    IN  [sessions |-> SelectSeq(final, NotJsonSummary), entries |-> parsed.entries]

\* result.sessions.forEach: keep the first record seen for an id
RECURSIVE MergeSessions(_, _)
MergeSessions(allSessions, sessions) ==
    IF sessions = << >> THEN allSessions
    ELSE MergeSessions(IF IndexOfSession(allSessions, Head(sessions).id) = 0
                       THEN Append(allSessions, Head(sessions))
                       ELSE allSessions,
                       Tail(sessions))

\* the early-exit test after a file has been merged
EarlyExit(allSessions, allEntries, limit, offset, fileCount) ==
    /\ Len(allSessions) >= (limit + offset) * 2
    /\ Len(allEntries) >= Min(3, fileCount)

RECURSIVE ScanFiles(_, _, _, _, _, _, _, _)
\* the loop over filesWithStats; earlyExit = FALSE reads every file
ScanFiles(fs, names, allSessions, allEntries, limit, offset, fileCount, earlyExit) ==
    IF names = << >> THEN [sessions |-> allSessions, entries |-> allEntries]
    ELSE LET result == parseJsonlSessions(fs[Head(names)])
             sessions1 == MergeSessions(allSessions, result.sessions)
             entries1 == allEntries \o result.entries
         IN  IF earlyExit /\ EarlyExit(sessions1, entries1, limit, offset, fileCount)
             THEN [sessions |-> sessions1, entries |-> entries1]
             ELSE ScanFiles(fs, Tail(names), sessions1, entries1, limit, offset,
                            fileCount, earlyExit)

\* position of the group with this first-user-message id, 0 if none
IndexOfGroup(groups, key) ==
    IF \E i \in 1..Len(groups) : groups[i].key = key
    THEN CHOOSE i \in 1..Len(groups) : groups[i].key = key
    ELSE 0

\* entry is the first user message of a session
IsFirstUserMessage(entry) ==
    /\ Truthy(entry.sid) /\ entry.type = "user"
    /\ entry.parent = Null /\ Truthy(entry.uuid)

RECURSIVE BuildGroups(_, _, _, _)
\* sessionGroups, built over allEntries; seen is sessionToFirstUserMsgId's keys
BuildGroups(entries, allSessions, groups, seen) ==
    IF entries = << >> THEN groups
    ELSE LET entry == Head(entries)
             i == IndexOfSession(allSessions, entry.sid)
             g == IndexOfGroup(groups, entry.uuid)
         IN  IF ~IsFirstUserMessage(entry) \/ entry.sid \in seen
             THEN BuildGroups(Tail(entries), allSessions, groups, seen)
             ELSE IF i = 0
             THEN BuildGroups(Tail(entries), allSessions, groups, seen \cup {entry.sid})
             ELSE IF g = 0
             THEN BuildGroups(Tail(entries), allSessions,
                              Append(groups, [key |-> entry.uuid,
                                              latestSession |-> allSessions[i],
                                              allSessions |-> <<allSessions[i]>>]),
                              seen \cup {entry.sid})
             ELSE BuildGroups(Tail(entries), allSessions,
                              [groups EXCEPT
                                 ![g].allSessions = Append(@, allSessions[i]),
                                 ![g].latestSession =
                                     IF allSessions[i].lastActivity > @.lastActivity
                                     THEN allSessions[i] ELSE @],
                              seen \cup {entry.sid})

\* latestFromGroups: the latest session of a group with the group's metadata
LatestOfGroup(group) ==
    IF Len(group.allSessions) > 1
    THEN [group.latestSession EXCEPT
            !.isGrouped = TRUE,
            !.groupSize = Len(group.allSessions),
            !.groupSessions = [k \in 1..Len(group.allSessions) |->
                                  group.allSessions[k].id]]
    ELSE group.latestSession

RECURSIVE InsertByActivity(_, _)
\* place s after every session that is not older (a stable descending sort)
InsertByActivity(sorted, s) ==
    IF sorted = << >> THEN <<s>>
    ELSE IF Head(sorted).lastActivity >= s.lastActivity
         THEN <<Head(sorted)>> \o InsertByActivity(Tail(sorted), s)
         ELSE <<s>> \o sorted

RECURSIVE SortByLastActivity(_)
SortByLastActivity(ss) ==
    IF ss = << >> THEN << >>
    ELSE InsertByActivity(SortByLastActivity(SubSeq(ss, 1, Len(ss) - 1)), ss[Len(ss)])

\* visibleSessions of a scan
visibleSessions(scanned) ==
    LET groups == BuildGroups(scanned.entries, scanned.sessions, << >>, {})
        groupedSessionIds ==
            UNION {{groups[g].allSessions[k].id : k \in 1..Len(groups[g].allSessions)} :
                      g \in 1..Len(groups)}
        standalone == SelectSeq(scanned.sessions, LAMBDA s : s.id \notin groupedSessionIds)
        latestFromGroups == [g \in 1..Len(groups) |-> LatestOfGroup(groups[g])]
    IN  SortByLastActivity(SelectSeq(latestFromGroups \o standalone, NotJsonSummary))

HasMoreInclusive(limit, offset, total) == offset + limit <= total
\* hasMore of a page
HasMoreSessions(limit, offset, total) == offset + limit < total

\* the page and counters returned for a visible list
PageOfSessions(visible, limit, offset) ==
    [sessions |-> JsSlice(visible, offset, offset + limit),
     hasMore |-> HasMoreSessions(limit, offset, Len(visible)),
     total |-> Len(visible)]

\* filesWithStats after the sort: the session files, newest first
FilesNewestFirst(fs, order) ==
    SelectSeq(order, LAMBDA f : f \in {ReadDirSessionFiles(fs)[i] :
                                          i \in 1..Len(ReadDirSessionFiles(fs))})

\* a directory entry that fs.readdir lists and fs.stat cannot reach: a
\* symbolic link whose target is gone, a file removed after the readdir
Dangling == <<[EmptyLine EXCEPT !.kind = "dangling"]>>

\* the Promise.all over fs.stat rejects
StatFails(fs) ==
    \E i \in 1..Len(ReadDirSessionFiles(fs)) : fs[ReadDirSessionFiles(fs)[i]] = Dangling

\* what the loop over filesWithStats collects; nothing if it is not reached
ScanOf(fs, order, limit, offset, earlyExit) ==
    IF StatFails(fs)
    THEN [sessions |-> << >>, entries |-> << >>]
    ELSE ScanFiles(fs, FilesNewestFirst(fs, order), << >>, << >>, limit, offset,
                   Len(FilesNewestFirst(fs, order)), earlyExit)

getSessions(fs, order, limit, offset) ==
    IF ReadDirSessionFiles(fs) = << >>
    THEN [sessions |-> << >>, hasMore |-> FALSE, total |-> 0]
    ELSE IF StatFails(fs)
    THEN [sessions |-> << >>, hasMore |-> FALSE, total |-> 0]
    ELSE PageOfSessions(visibleSessions(ScanOf(fs, order, limit, offset, TRUE)),
                        limit, offset)

SessionIds == {"s1", "s2", "s3"}
\* the first user message of a session
RootLine(sid, uuid, ts) == Entry(sid, "user", uuid, Null, ts, None, "user", "hi")
SessionPool ==
    {RootLine("s1", "u1", 1), RootLine("s1", "u1", 3),
     RootLine("s2", "u1", 2), RootLine("s2", "u2", 2),
     RootLine("s3", "u1", 3), RootLine("s3", "u3", 1),
     Entry("s1", "assistant", "x1", "u1", 2, None, "assistant", LongText),
     Entry("s2", "summary", None, None, 0, None, None, JsonText),
     Entry("s3", "summary", None, None, 0, None, None, CompactJsonText),
     [Entry(None, "summary", None, None, 0, None, None, "sum") EXCEPT !.leaf = "u1"],
     BadLine}

SessionsAppend ==
    /\ TotalLines < MaxSessionLines
    /\ CodexIsEmpty
    /\ \E f \in {"a.jsonl", "c.jsonl"}, l \in SessionPool : AppendTo(f, l)
    /\ UNCHANGED besidesStore

\* an agent log gets a line
AgentAppend ==
    /\ TotalLines < MaxSessionLines
    /\ CodexIsEmpty
    /\ AppendTo("agent-b.jsonl", RootLine("s3", "u3", 1))
    /\ UNCHANGED besidesStore

\* an entry of the project directory loses its target
DanglingLinkAppears ==
    /\ CodexIsEmpty
    /\ \E f \in {"a.jsonl", "c.jsonl"} :
          /\ files[f] = << >>
          /\ files' = [files EXCEPT ![f] = Dangling]
    /\ call' = NoCall
    /\ UNCHANGED <<mtimeOrder, codexFiles, besidesStore>>

\* GET /api/projects/:projectName/sessions
GetSessions ==
    /\ call = NoCall
    /\ CodexIsEmpty
    /\ \E limit \in 0..MaxSessionLimit, offset \in 0..MaxSessionOffset :
          call' = [op |-> "getSessions", limit |-> limit, offset |-> offset,
                   ret |-> getSessions(files, mtimeOrder, limit, offset),
                   scan |-> ScanOf(files, mtimeOrder, limit, offset, TRUE),
                   full |-> ScanOf(files, mtimeOrder, limit, offset, FALSE)]
    /\ UNCHANGED <<files, mtimeOrder, codexFiles, besidesStore>>

SessionsNext ==
    \/ SessionsAppend
    \/ AgentAppend
    \/ DanglingLinkAppears
    \/ GetSessions


----------------------------------------------------------------------------
(* Claims about the session listing *)

Returned == call.op = "getSessions"

\* the first-user-message marker of a session of the project: the uuid of
\* its first user entry with parentUuid null, None if it has none
MarkerOf(sid) ==
    LET roots == SelectSeq(call.full.entries,
                           LAMBDA e : IsFirstUserMessage(e) /\ e.sid = sid)
    IN  IF roots = << >> THEN None ELSE Head(roots).uuid

ProjectSessionIds == {call.full.sessions[i].id : i \in 1..Len(call.full.sessions)}
MembersOf(marker) == {sid \in ProjectSessionIds : MarkerOf(sid) = marker}
ActivityOf(sid) ==
    call.full.sessions[IndexOfSession(call.full.sessions, sid)].lastActivity

\* C2: in a returned listing no two top-level sessions share a
\* first-user-message marker; the session shown for a group is the member
\* with the latest lastActivity, and it carries groupSize and groupSessions
\* listing every member of the group.
C2_GroupingInvariant ==
    Returned =>
        LET page == call.ret.sessions
        IN  /\ \A i, j \in 1..Len(page) :
                 (i # j /\ MarkerOf(page[i].id) # None)
                     => MarkerOf(page[i].id) # MarkerOf(page[j].id)
            /\ \A i \in 1..Len(page) :
                 LET members == MembersOf(MarkerOf(page[i].id))
                 IN  MarkerOf(page[i].id) # None =>
                       /\ \A sid \in members : ActivityOf(sid) <= page[i].lastActivity
                       /\ Cardinality(members) > 1 =>
                            /\ page[i].groupSize = Cardinality(members)
                            /\ {page[i].groupSessions[k] :
                                   k \in 1..Len(page[i].groupSessions)} = members

\* C10: the returned sessions are the elements at positions
\* offset .. offset+limit-1 of the visible list (grouped, filtered, sorted by
\* lastActivity descending), total is the length of that list, and hasMore
\* holds exactly when offset + limit < total.
C10_SessionPage ==
    Returned =>
        LET visible == visibleSessions(call.scan)
        IN  /\ call.ret.sessions
                 = Range0(visible, call.offset,
                          Min(call.offset + call.limit - 1, Len(visible) - 1))
            /\ \A i \in 1..(Len(visible) - 1) :
                 visible[i].lastActivity >= visible[i + 1].lastActivity
            /\ \A i \in 1..Len(visible) : NotJsonSummary(visible[i])
            /\ call.ret.total = Len(visible)
            /\ call.ret.hasMore <=> (call.offset + call.limit < call.ret.total)

\* a text that begins with '{' followed by a JSON key
BeginsWithJsonObject(t) == t \in {JsonText, CompactJsonText}

\* C11: no session returned by getSessions has a summary that begins with a
\* JSON-object-opening token ('{' followed by a JSON key).
C11_NoJsonSummary ==
    Returned =>
        \A i \in 1..Len(call.ret.sessions) :
            ~BeginsWithJsonObject(call.ret.sessions[i].summary)

\* the project's logs without their damage: no entry that cannot be
\* stat-ed, no malformed line
Repaired(fs) ==
    [f \in FileSet |->
        IF fs[f] = Dangling THEN << >>
        ELSE SelectSeq(fs[f], LAMBDA l : l.kind # "bad")]

\* C19: a log file that holds malformed lines or cannot be read or stat-ed
\* takes nothing else away from the listing: getSessions returns what it
\* returns for the same logs without the damaged entry and the malformed
\* lines.
C19_DamageIsLocal ==
    Returned =>
        call.ret = getSessions(Repaired(files), mtimeOrder, call.limit, call.offset)

\* malformed lines alone are skipped without loss
C19_MalformedLinesSkipped ==
    (Returned /\ ~StatFails(files)) =>
        call.ret = getSessions(Repaired(files), mtimeOrder, call.limit, call.offset)

\* C25: the early exit of the file loop does not change the answer: the
\* page, total and hasMore returned for any (limit, offset) are those
\* obtained by scanning every file.
C25_EarlyExitSameAnswer ==
    Returned =>
        call.ret = PageOfSessions(visibleSessions(call.full), call.limit, call.offset)

\* the answer is that of the full scan whenever the loop read every file
C25_FullScanSameAnswer ==
    (Returned /\ call.scan = call.full) =>
        call.ret = PageOfSessions(visibleSessions(call.full), call.limit, call.offset)

\* a second page of one session out of three, with more to come
C10_Witness ==
    /\ Returned
    /\ call.offset = 1 /\ call.limit = 1
    /\ call.ret.total = 3 /\ Len(call.ret.sessions) = 1 /\ call.ret.hasMore


----------------------------------------------------------------------------
(* extractProjectDirectory, clearProjectDirectoryCache, the projects       *)
(* watcher                                                                  *)

\* lines a project's log holds before the run starts, lines added in a run
HistoryLines == 4
MaxResolveLines == 2

\* the project identity ('/repo-x' with every '/' replaced by '-')
ProjectName == "-repo-x"
\* projectName.replace(/-/g, '/')
DecodeProjectName(name) == IF name = "-repo-x" THEN "/repo/x" ELSE name

\* the project's entry of the configuration file
\* config[projectName] is undefined
NoConfigEntry == [present |-> FALSE, manuallyAdded |-> FALSE,
                  originalPath |-> None, displayName |-> None]

NoScan == [pc |-> "idle", remaining |-> << >>, fileCount |-> 0,
           cwdCounts |-> << >>, latestTimestamp |-> 0, latestCwd |-> Null,
           clean |-> TRUE, overtaken |-> FALSE]

ResolveIdle ==
    /\ config = NoConfigEntry
    /\ projectDirectoryCache = Null
    /\ scan = NoScan
    /\ windowFirst = None
    /\ debounceTimer = FALSE
    /\ isGetProjectsRunning = FALSE
    /\ cachedBeforeConfig = FALSE
    /\ changePending = FALSE

\* cwdCounts.get(cwd) || 0; the map is a list of [cwd, count] in insertion order
CountOf(cwdCounts, cwd) ==
    IF \E i \in 1..Len(cwdCounts) : cwdCounts[i].cwd = cwd
    THEN cwdCounts[CHOOSE i \in 1..Len(cwdCounts) : cwdCounts[i].cwd = cwd].count
    ELSE 0

\* cwdCounts.set(cwd, (cwdCounts.get(cwd) || 0) + 1)
CountOneMore(cwdCounts, cwd) ==
    IF \E i \in 1..Len(cwdCounts) : cwdCounts[i].cwd = cwd
    THEN [i \in 1..Len(cwdCounts) |->
             IF cwdCounts[i].cwd = cwd
             THEN [cwdCounts[i] EXCEPT !.count = @ + 1] ELSE cwdCounts[i]]
    ELSE Append(cwdCounts, [cwd |-> cwd, count |-> 1])

RECURSIVE TallyLines(_, _)
\* the readline loop over one file
TallyLines(lines, t) ==
    IF lines = << >> THEN t
    ELSE LET entry == Head(lines)
         IN  IF Parses(entry) /\ Truthy(entry.cwd)
             THEN TallyLines(Tail(lines),
                    [t EXCEPT
                       !.cwdCounts = CountOneMore(@, entry.cwd),
                       !.latestTimestamp = IF entry.ts > @ THEN entry.ts ELSE @,
                       !.latestCwd = IF entry.ts > t.latestTimestamp
                                     THEN entry.cwd ELSE @])
             ELSE TallyLines(Tail(lines), t)

StrictlyMoreThanQuarter(mostRecentCount, maxCount) == 4 * mostRecentCount > maxCount
\* mostRecentCount >= maxCount * 0.25
AtLeastQuarter(mostRecentCount, maxCount) == 4 * mostRecentCount >= maxCount

\* Math.max(...cwdCounts.values())
MaxCount(cwdCounts) ==
    CHOOSE m \in {cwdCounts[i].count : i \in 1..Len(cwdCounts)} :
        \A i \in 1..Len(cwdCounts) : cwdCounts[i].count <= m

\* the first key of the map whose count is maxCount
FirstWithCount(cwdCounts, maxCount) ==
    Head(SelectSeq(cwdCounts, LAMBDA e : e.count = maxCount)).cwd

\* "Determine the best cwd to use"
BestCwd(t) ==
    IF t.fileCount = 0 \/ Len(t.cwdCounts) = 0 THEN DecodeProjectName(ProjectName)
    ELSE IF Len(t.cwdCounts) = 1 THEN t.cwdCounts[1].cwd
    ELSE IF AtLeastQuarter(CountOf(t.cwdCounts, t.latestCwd), MaxCount(t.cwdCounts))
    THEN t.latestCwd
    ELSE FirstWithCount(t.cwdCounts, MaxCount(t.cwdCounts))

\* the call returns: the result is recorded, and remembered as the window's
\* first if the call ran wholly after the last config or log change
Returns(path, how, clean, t) ==
    /\ call' = [op |-> "extractProjectDirectory", ret |-> path, how |-> how,
                clean |-> clean, tally |-> t,
                stale |-> (how = "cache" /\ cachedBeforeConfig),
                overtaken |-> (how # "cache" /\ scan.overtaken)]
    /\ windowFirst' = IF clean /\ windowFirst = None THEN path ELSE windowFirst

\* extractProjectDirectory up to its first await: the cache check
ExtractStart ==
    /\ scan.pc = "idle"
    /\ IF projectDirectoryCache # Null
       THEN /\ Returns(projectDirectoryCache, "cache", TRUE, NoScan)
            /\ UNCHANGED scan
       ELSE /\ scan' = [NoScan EXCEPT !.pc = "config"]
            /\ call' = NoCall
            /\ UNCHANGED windowFirst
    /\ UNCHANGED <<files, mtimeOrder, codexFiles, config, projectDirectoryCache,
                   debounceTimer, isGetProjectsRunning, cachedBeforeConfig,
                   changePending, besidesResolve>>

\* loadProjectConfig has answered; then fs.access and fs.readdir
ExtractLoadConfig ==
    /\ scan.pc = "config"
    /\ IF Truthy(config.originalPath)
       THEN /\ projectDirectoryCache' = config.originalPath
            /\ cachedBeforeConfig' = FALSE
            /\ Returns(config.originalPath, "config", scan.clean, NoScan)
            /\ scan' = NoScan
       ELSE /\ scan' = [scan EXCEPT !.pc = "files",
                                    !.remaining = ReadDirJsonl(files),
                                    !.fileCount = Len(ReadDirJsonl(files))]
            /\ UNCHANGED <<projectDirectoryCache, call, windowFirst,
                           cachedBeforeConfig>>
    /\ UNCHANGED <<files, mtimeOrder, codexFiles, config, debounceTimer,
                   isGetProjectsRunning, changePending, besidesResolve>>

\* one file has been read to its end
ExtractReadFile ==
    /\ scan.pc = "files" /\ scan.remaining # << >>
    /\ scan' = [TallyLines(NonBlankLines(files[Head(scan.remaining)]), scan)
                   EXCEPT !.remaining = Tail(scan.remaining)]
    /\ UNCHANGED <<files, mtimeOrder, call, codexFiles, config,
                   projectDirectoryCache, windowFirst, debounceTimer,
                   isGetProjectsRunning, cachedBeforeConfig, changePending,
                   besidesResolve>>

\* the decision, the cache write and the return
ExtractFinish ==
    /\ scan.pc = "files" /\ scan.remaining = << >>
    /\ projectDirectoryCache' = BestCwd(scan)
    /\ cachedBeforeConfig' = FALSE
    /\ Returns(BestCwd(scan), "logs", scan.clean, scan)
    /\ scan' = NoScan
    /\ UNCHANGED <<files, mtimeOrder, codexFiles, config, debounceTimer,
                   isGetProjectsRunning, changePending, besidesResolve>>

\* a log entry that records a working directory
CwdLine(cwd, ts) == Entry("s1", "user", None, Null, ts, cwd, "user", "hi")
HistoryLine == [CwdLine("/A", 1) EXCEPT !.uuid = "h"]
ResolvePool ==
    {CwdLine("/A", 1), CwdLine("/B", 2), CwdLine("/A", 0), CwdLine("/B", 0),
     CwdLine(None, 3)}
AddedLines(text) == Len(SelectSeq(text, LAMBDA l : l.kind # "empty" /\ l.uuid # "h"))

\* the assistant process appends a line to one of the project's logs; the
\* watcher sees the change and (re)arms its debounce timer
ResolveAppend ==
    /\ AddedLines(files["a.jsonl"]) + AddedLines(files["agent-b.jsonl"])
           < MaxResolveLines
    /\ \E f \in {"a.jsonl", "agent-b.jsonl"}, l \in ResolvePool : AppendTo(f, l)
    /\ scan' = [scan EXCEPT !.clean = (scan.pc = "idle")]
    /\ windowFirst' = None
    /\ debounceTimer' = TRUE
    /\ changePending' = TRUE
    /\ UNCHANGED <<config, projectDirectoryCache, isGetProjectsRunning,
                   cachedBeforeConfig, besidesResolve>>

\* what every change of the project's configuration entry does to the rest:
\* saveProjectConfig writes the file, and nothing touches the path cache
ConfigChanged(record) ==
    /\ scan' = [scan EXCEPT !.clean = (scan.pc = "idle")]
    /\ windowFirst' = None
    /\ call' = record
    /\ cachedBeforeConfig' = (projectDirectoryCache # Null)
    /\ UNCHANGED <<codexFiles, projectDirectoryCache, isGetProjectsRunning,
                   besidesResolve>>

\* addProjectManually for the path that encodes to ProjectName
AddProjectManually ==
    /\ ~config.present
    /\ config' = [present |-> TRUE, manuallyAdded |-> TRUE,
                  originalPath |-> "/repo-x", displayName |-> None]
    /\ ConfigChanged(NoCall)
    /\ UNCHANGED <<files, mtimeOrder, debounceTimer, changePending>>

\* the entry renameProject leaves: none for an empty name, else the name alone
renameProject(newDisplayName) ==
    IF newDisplayName = ""
    THEN NoConfigEntry
    ELSE [present |-> TRUE, manuallyAdded |-> FALSE, originalPath |-> None,
          displayName |-> newDisplayName]

RenameProject ==
    /\ \E newDisplayName \in {"", "shown"} :
          /\ renameProject(newDisplayName) # config
          /\ config' = renameProject(newDisplayName)
          /\ ConfigChanged([op |-> "renameProject",
                            newDisplayName |-> newDisplayName,
                            configBefore |-> config])
    /\ UNCHANGED <<files, mtimeOrder, debounceTimer, changePending>>

\* getSessions(projectName, 1, 0).total === 0
isProjectEmpty == getSessions(files, mtimeOrder, 1, 0).total = 0

\* the record of a deleteProject call: what it found and whether it returned
DeleteProjectCall(ok) ==
    [op |-> "deleteProject", ok |-> ok, filesBefore |-> files,
     configBefore |-> config]

\* deleteProject: the directory and the configuration entry are removed and
\* the watcher sees the removal of the log files; a project that is not
\* empty makes the call throw
DeleteProject ==
    /\ config.present \/ mtimeOrder # << >>
    /\ IF isProjectEmpty
       THEN /\ files' = [f \in FileSet |-> << >>]
            /\ mtimeOrder' = << >>
            /\ config' = NoConfigEntry
            /\ debounceTimer' = (debounceTimer \/ mtimeOrder # << >>)
            /\ changePending' = (changePending \/ mtimeOrder # << >>)
            /\ scan' = [scan EXCEPT !.clean = (scan.pc = "idle")]
            /\ windowFirst' = None
            /\ cachedBeforeConfig' = (projectDirectoryCache # Null)
            /\ call' = DeleteProjectCall(TRUE)
       ELSE /\ call' = DeleteProjectCall(FALSE)
            /\ UNCHANGED <<files, mtimeOrder, config, debounceTimer, changePending,
                           scan, windowFirst, cachedBeforeConfig>>
    /\ UNCHANGED <<codexFiles, projectDirectoryCache, isGetProjectsRunning,
                   besidesResolve>>

\* clearProjectDirectoryCache
ClearedCache == Null

\* the debounce timer fires: the watcher's callback up to `await getProjects`
WatcherFire ==
    /\ debounceTimer
    /\ debounceTimer' = FALSE
    /\ IF isGetProjectsRunning
       THEN UNCHANGED <<isGetProjectsRunning, projectDirectoryCache,
                        cachedBeforeConfig, changePending, scan>>
       ELSE /\ isGetProjectsRunning' = TRUE
            /\ projectDirectoryCache' = ClearedCache
            /\ cachedBeforeConfig' = FALSE
            /\ changePending' = FALSE
            /\ scan' = [scan EXCEPT !.overtaken = (scan.pc # "idle")]
    /\ UNCHANGED <<storeVars, config, windowFirst, besidesResolve>>

\* getProjects has returned to the watcher's callback: the `finally`
WatcherDone ==
    /\ isGetProjectsRunning
    /\ isGetProjectsRunning' = FALSE
    /\ UNCHANGED <<storeVars, config, projectDirectoryCache, scan, windowFirst,
                   debounceTimer, cachedBeforeConfig, changePending,
                   besidesResolve>>

ResolveNext ==
    \/ ExtractStart
    \/ ExtractLoadConfig
    \/ ExtractReadFile
    \/ ExtractFinish
    \/ ResolveAppend
    \/ AddProjectManually
    \/ RenameProject
    \/ DeleteProject
    \/ WatcherFire
    \/ WatcherDone

----------------------------------------------------------------------------
(* Claims about the resolver *)

\* the entries of the project's logs that record a working directory, in the
\* order the resolver reads them
CwdEntries ==
    LET Recorded(l) == Parses(l) /\ Truthy(l.cwd)
        names == ReadDirJsonl(files)
        RECURSIVE Of(_)
        Of(ns) == IF ns = << >> THEN << >>
                  ELSE SelectSeq(files[Head(ns)], Recorded) \o Of(Tail(ns))
    IN  Of(names)

Occurrences(cwd) == Len(SelectSeq(CwdEntries, LAMBDA l : l.cwd = cwd))
RecordedCwds == {CwdEntries[i].cwd : i \in 1..Len(CwdEntries)}
MaxOccurrences ==
    CHOOSE m \in {Occurrences(c) : c \in RecordedCwds} :
        \A c \in RecordedCwds : Occurrences(c) <= m
\* the working directory of the first entry that carries the latest timestamp
MostRecentCwd ==
    LET stamped == SelectSeq(CwdEntries, LAMBDA l : l.ts > 0)
        latest == SelectSeq(stamped,
                            LAMBDA l : \A i \in 1..Len(stamped) : stamped[i].ts <= l.ts)
    IN  IF stamped = << >> THEN None ELSE Head(latest).cwd
FirstMostFrequent ==
    Head(SelectSeq(CwdEntries, LAMBDA l : Occurrences(l.cwd) = MaxOccurrences)).cwd

\* a resolution from logs that did not change while it ran
ResolvedFromLogs ==
    /\ call.op = "extractProjectDirectory"
    /\ call.how = "logs"
    /\ call.clean

\* C3: when the logs record two or more distinct working directories, the
\* result is the most recently timestamped one if its occurrence count is
\* at least a quarter of the maximum count, and otherwise the first value,
\* in first-seen order, that has the maximum count.
C3_MajorityVote ==
    (ResolvedFromLogs /\ Cardinality(RecordedCwds) >= 2) =>
        call.ret = IF MostRecentCwd # None
                      /\ 4 * Occurrences(MostRecentCwd) >= MaxOccurrences
                   THEN MostRecentCwd
                   ELSE FirstMostFrequent

\* tallies {A: 5, B: 1} with B most recent resolve to A
C3_Witness ==
    /\ ResolvedFromLogs
    /\ Occurrences("/A") = 5 /\ Occurrences("/B") = 1
    /\ MostRecentCwd = "/B"
    /\ call.ret = "/A"

\* C9: two calls for the same project with no change to the configuration
\* or to the log files in between yield the same path, whether the second
\* is a cache hit or a recomputation after clearProjectDirectoryCache.
C9_SamePathTwice ==
    (call.op = "extractProjectDirectory" /\ call.clean) => call.ret = windowFirst

\* C14: whenever the project configuration records an originalPath for the
\* project, a call of extractProjectDirectory made after that configuration
\* was written returns exactly that path, whatever the log files record.
C14_ConfigPrecedence ==
    (call.op = "extractProjectDirectory" /\ call.clean
        /\ Truthy(config.originalPath))
    => call.ret = config.originalPath

\* the configured path is returned when the call reads the configuration
C14_ConfigReadWins ==
    (call.op = "extractProjectDirectory" /\ call.clean
        /\ Truthy(config.originalPath) /\ call.how # "cache")
    => call.ret = config.originalPath

\* C16: after addProjectManually, renameProject or deleteProject has changed
\* the project's configuration entry, the next extractProjectDirectory call
\* does not return a value that was cached before the change.
C16_NoValueCachedBeforeChange ==
    (call.op = "extractProjectDirectory" /\ call.clean) => ~call.stale

\* a log line that belongs to a session
IsSessionEntry(l) == l.kind = "json" /\ l.sid # None
HasSessionEntries(fs) ==
    \E f \in FileSet : \E i \in 1..Len(fs[f]) : IsSessionEntry(fs[f][i])

\* C23: deleteProject removes the log directory and the configuration entry
\* only when no log file of the project holds a session entry; otherwise it
\* throws and leaves the directory and the configuration as they were.
C23_DeleteOnlyIfEmpty ==
    call.op = "deleteProject" =>
        IF HasSessionEntries(call.filesBefore)
        THEN ~call.ok /\ files = call.filesBefore /\ config = call.configBefore
        ELSE call.ok /\ ~HasSessionEntries(files) /\ config = NoConfigEntry

\* a project with a listed session is never deleted
C23_ListedSessionsKept ==
    (call.op = "deleteProject"
        /\ getSessions(call.filesBefore, mtimeOrder, 1, 0).total > 0)
    => ~call.ok /\ files = call.filesBefore /\ config = call.configBefore

\* C26: renameProject changes the display name only: the manuallyAdded flag
\* and the originalPath recorded for the project are what they were before
\* the call, for an empty and for a non-empty name.
C26_RenameKeepsPath ==
    call.op = "renameProject" =>
        /\ config.manuallyAdded = call.configBefore.manuallyAdded
        /\ config.originalPath = call.configBefore.originalPath
        /\ config.displayName
               = IF call.newDisplayName = "" THEN None ELSE call.newDisplayName

\* the display name is set as asked; an entry without flag and path loses
\* nothing
C26_RenamePlainEntry ==
    call.op = "renameProject" =>
        /\ config.displayName
               = IF call.newDisplayName = "" THEN None ELSE call.newDisplayName
        /\ ~call.configBefore.manuallyAdded =>
               /\ ~config.manuallyAdded
               /\ config.originalPath = call.configBefore.originalPath

\* C27: a scan that was in flight when clearProjectDirectoryCache ran does
\* not leave its path in the cache: every entry present after a clear was
\* computed by a scan that started after it.
C27_NoWriteAfterClear ==
    (call.op = "extractProjectDirectory" /\ call.overtaken)
    => projectDirectoryCache # call.ret

\* C15: every change of log content seen by the watcher is eventually
\* followed by a clearing of the project-path cache, also when the change
\* arrives while a watcher-triggered refresh is running.
C15_ChangeLeadsToClear == changePending ~> ~changePending


----------------------------------------------------------------------------
(* getCodexSessions, getCodexSessionJsonlFilesCached *)

CODEX_JSONL_CACHE_TTL_MS == 10000
\* the clock advances in steps of TickMs, MaxTicks times at most
TickMs == 5000
MaxTicks == 3
\* concurrent getCodexSessions calls, and scans started in one run
NumCallers == 3
MaxWalks == 2

Callers == 1..NumCallers
NoCaller == [pc |-> "idle", promise |-> 0, ret |-> << >>]

CacheIdle ==
    /\ codexJsonlCache = [loadedAt |-> 0, files |-> << >>]
    /\ codexJsonlCachePromise = 0
    /\ promises = << >>
    /\ callers = [c \in Callers |-> NoCaller]
    /\ now = CODEX_JSONL_CACHE_TTL_MS

\* findJsonlFiles: the .jsonl files below the log root
findJsonlFiles(cfs) == SelectSeq(CodexFileNames, LAMBDA f : cfs[f] # << >>)

\* the cache holds files and is younger than the TTL
CacheIsFresh ==
    /\ Len(codexJsonlCache.files) > 0
    /\ now - codexJsonlCache.loadedAt < CODEX_JSONL_CACHE_TTL_MS

NeverInFlight(p) == FALSE
\* if (codexJsonlCachePromise)
ScanInFlight(p) == p # 0

\* getCodexSessions is called and awaits fs.access
CallGetCodexSessions(c) ==
    /\ callers[c].pc = "idle"
    /\ callers' = [callers EXCEPT ![c].pc = "access"]
    /\ UNCHANGED <<codexJsonlCache, codexJsonlCachePromise, promises, now,
                   codexFiles, besidesCache>>

\* getCodexSessionJsonlFilesCached up to its await: a fresh cache is
\* returned, a scan in flight is joined, or a new scan is started
EnterCached(c) ==
    /\ callers[c].pc = "access"
    /\ IF CacheIsFresh
       THEN /\ callers' = [callers EXCEPT
                             ![c] = [pc |-> "done", promise |-> 0,
                                     ret |-> codexJsonlCache.files]]
            /\ UNCHANGED <<codexJsonlCachePromise, promises>>
       ELSE IF ScanInFlight(codexJsonlCachePromise)
       THEN /\ callers' = [callers EXCEPT
                             ![c] = [pc |-> "joined",
                                     promise |-> codexJsonlCachePromise,
                                     ret |-> << >>]]
            /\ UNCHANGED <<codexJsonlCachePromise, promises>>
       ELSE /\ Len(promises) < MaxWalks
            /\ promises' = Append(promises, [state |-> "pending", files |-> << >>])
            /\ codexJsonlCachePromise' = Len(promises) + 1
            /\ callers' = [callers EXCEPT
                             ![c] = [pc |-> "creator", promise |-> Len(promises) + 1,
                                     ret |-> << >>]]
    /\ UNCHANGED <<codexJsonlCache, now, codexFiles, besidesCache>>

finallyKeeps(p) == p
\* finally { codexJsonlCachePromise = null }
finallyClears(p) == 0

\* the scan of caller c ends: the cache is written, the promise resolves and
\* c, whose await was registered first, runs its `finally` and returns. A
\* directory that cannot be read is skipped by the walk's catch: the scan
\* that fails this way ends with an empty listing
WalkFinish(c) ==
    /\ callers[c].pc = "creator"
    /\ promises[callers[c].promise].state = "pending"
    /\ \E readable \in BOOLEAN :
         LET files_ == IF readable THEN findJsonlFiles(codexFiles) ELSE << >>
         IN  /\ codexJsonlCache' = [loadedAt |-> now, files |-> files_]
             /\ promises' = [promises EXCEPT
                               ![callers[c].promise] =
                                   [state |-> "resolved", files |-> files_]]
             /\ callers' = [callers EXCEPT ![c].pc = "done", ![c].ret = files_]
    /\ codexJsonlCachePromise' = finallyClears(codexJsonlCachePromise)
    /\ UNCHANGED <<now, codexFiles, besidesCache>>

\* a caller that was handed the promise receives its value
JoinerResume(c) ==
    /\ callers[c].pc = "joined"
    /\ promises[callers[c].promise].state = "resolved"
    /\ callers' = [callers EXCEPT
                     ![c].pc = "done", ![c].ret = promises[callers[c].promise].files]
    /\ UNCHANGED <<codexJsonlCache, codexJsonlCachePromise, promises, now,
                   codexFiles, besidesCache>>

\* the call has returned; the caller may call again
CallerReturns(c) ==
    /\ callers[c].pc = "done"
    /\ callers' = [callers EXCEPT ![c] = NoCaller]
    /\ UNCHANGED <<codexJsonlCache, codexJsonlCachePromise, promises, now,
                   codexFiles, besidesCache>>

\* time passes
Tick ==
    /\ now < CODEX_JSONL_CACHE_TTL_MS + MaxTicks * TickMs
    /\ now' = now + TickMs
    /\ UNCHANGED <<codexJsonlCache, codexJsonlCachePromise, promises, callers,
                   codexFiles, besidesCache>>

\* the Codex CLI starts a new session log
CodexFileAppears ==
    /\ \E f \in CodexFileSet :
          /\ codexFiles[f] = << >>
          /\ codexFiles' = [codexFiles EXCEPT
                              ![f] = <<SessionMeta(IdInName(f)), CodexEmptyLine>>]
    /\ UNCHANGED <<codexJsonlCache, codexJsonlCachePromise, promises, callers,
                   now, besidesCache>>

CacheCall == \E c \in Callers : CallGetCodexSessions(c)
CacheEnter == \E c \in Callers : EnterCached(c)
CacheWalkFinish == \E c \in Callers : WalkFinish(c)
CacheJoinerResume == \E c \in Callers : JoinerResume(c)
CacheReturn == \E c \in Callers : CallerReturns(c)

CacheNext ==
    \/ CacheCall
    \/ CacheEnter
    \/ CacheWalkFinish
    \/ CacheJoinerResume
    \/ CacheReturn
    \/ Tick
    \/ CodexFileAppears

----------------------------------------------------------------------------
(* Claims about the directory-walk cache *)

WalksInFlight == {w \in 1..Len(promises) : promises[w].state = "pending"}
Waiting == {c \in Callers : callers[c].pc \in {"creator", "joined"}}

\* C6: while a scan of the Codex log root is running, every caller that
\* asks for the uncached listing shares that one scan: there are never two
\* walks in flight, and each of those callers receives that walk's result.
C6_OneWalkShared ==
    /\ Cardinality(WalksInFlight) <= 1
    /\ \A c \in Waiting :
         promises[callers[c].promise].state = "pending"
             => callers[c].promise = codexJsonlCachePromise
    /\ \A c, d \in Waiting :
         (promises[callers[c].promise].state = "pending"
          /\ promises[callers[d].promise].state = "pending")
             => callers[c].promise = callers[d].promise
    /\ \A c \in Callers :
         (callers[c].pc = "done" /\ callers[c].promise # 0)
             => callers[c].ret = promises[callers[c].promise].files

\* all callers asked during one scan and have received its one listing
C6_Witness ==
    /\ Len(promises) = 1
    /\ \A c \in Callers :
         /\ callers[c].pc = "done"
         /\ callers[c].promise = 1
         /\ callers[c].ret = <<"rollout-1-s1.jsonl">>

\* C17: after a scan has finished, whether it listed the logs or failed to
\* read them, no in-flight promise remains: the marker never names a
\* settled scan, and a later call that finds no fresh cache entry starts a
\* new scan instead of waiting on or receiving the old one.
C17_MarkerCleared ==
    /\ [](codexJsonlCachePromise # 0
            => promises[codexJsonlCachePromise].state = "pending")
    /\ [][\A c \in Callers :
            (callers[c].pc = "access" /\ callers'[c].pc # "access"
                 /\ ~CacheIsFresh /\ WalksInFlight = {})
            => /\ callers'[c].pc = "creator"
               /\ callers'[c].promise = Len(promises) + 1
               /\ promises'[callers'[c].promise].state = "pending"]_vars

\* a scan failed on an unreadable directory although a log exists, and a
\* later call has started the second scan
C17_Witness ==
    /\ Len(promises) = 2
    /\ promises[1] = [state |-> "resolved", files |-> << >>]
    /\ findJsonlFiles(codexFiles) # << >>
    /\ promises[2].state = "pending"
    /\ codexJsonlCachePromise = 2
    /\ \E c \in Callers : callers[c].pc = "creator" /\ callers[c].promise = 2

----------------------------------------------------------------------------
(* isSupportedCodexModel, resolveCodexModelPreference *)

\* JavaScript values that reach the two functions
JsNull == [type |-> "null", v |-> ""]
JsUndefined == [type |-> "undefined", v |-> ""]
JsString(text) == [type |-> "string", v |-> text]
JsNumber(digits) == [type |-> "number", v |-> digits]

\* the value is truthy
IsTruthy(x) ==
    \/ x.type = "string" /\ x.v # ""
    \/ x.type = "number" /\ x.v # "0"

\* x || null
OrNull(x) == IF IsTruthy(x) THEN x ELSE JsNull

\* a parameter with the default `= null`
DefaultNull(x) == IF x = JsUndefined THEN JsNull ELSE x

\* the model names of the tests, and what the tests fix of CODEX_MODELS:
\* 'o4-mini' and the default are options, 'gpt-9999' is none
ModelNames == {"gpt-5.2", "o3", "o4-mini"}
ModelConstants ==
    {[OPTIONS |-> o, DEFAULT |-> d] :
        o \in {x \in SUBSET ModelNames : "o4-mini" \in x}, d \in ModelNames}
ModelInputs ==
    {JsNull, JsUndefined, JsString(""), JsString("o3"), JsString("o4-mini"),
     JsString("gpt-5.2"), JsString("gpt-9999"), JsNumber("0"), JsNumber("5")}

EveryModel(model, models) == TRUE
\* isSupportedCodexModel against codexModelValues()
isSupportedCodexModel(model, models) ==
    IF ~IsTruthy(model) \/ model.type # "string" THEN FALSE
    ELSE model.v \in models.OPTIONS

resolveCodexModelPreference(stored, cli, models) ==
    LET storedModel_ == DefaultNull(stored)
        cliModel_ == DefaultNull(cli)
    IN  IF IsTruthy(storedModel_)
        THEN [model |-> storedModel_, source |-> "storage",
              cliModel |-> OrNull(cliModel_), modelSupported |-> TRUE]
        ELSE IF IsTruthy(cliModel_)
        THEN IF isSupportedCodexModel(cliModel_, models)
             THEN [model |-> cliModel_, source |-> "cli", cliModel |-> cliModel_,
                   modelSupported |-> TRUE]
             ELSE [model |-> JsString(models.DEFAULT), source |-> "fallback",
                   cliModel |-> cliModel_, modelSupported |-> FALSE]
        ELSE [model |-> JsString(models.DEFAULT), source |-> "default",
              cliModel |-> JsNull, modelSupported |-> TRUE]

ModelIdle ==
    /\ codexModels = [OPTIONS |-> {}, DEFAULT |-> ""]
    /\ storedModel = JsNull
    /\ cliModel = JsNull
    /\ modelRet = [op |-> "none"]

ModelInit ==
    /\ codexModels \in {m \in ModelConstants : m.DEFAULT \in m.OPTIONS}
    /\ storedModel \in ModelInputs
    /\ cliModel \in ModelInputs
    /\ modelRet = [op |-> "none"]

CallIsSupportedCodexModel ==
    /\ modelRet.op = "none"
    /\ modelRet' = [op |-> "isSupportedCodexModel",
                    ret |-> isSupportedCodexModel(cliModel, codexModels)]
    /\ UNCHANGED <<codexModels, storedModel, cliModel, besidesModel>>

CallResolveCodexModelPreference ==
    /\ modelRet.op = "none"
    /\ modelRet' = [op |-> "resolveCodexModelPreference",
                    ret |-> resolveCodexModelPreference(storedModel, cliModel,
                                                        codexModels)]
    /\ UNCHANGED <<codexModels, storedModel, cliModel, besidesModel>>

ModelNext ==
    \/ CallIsSupportedCodexModel
    \/ CallResolveCodexModelPreference

----------------------------------------------------------------------------
(* Claims about the Codex model preference *)

\* a model was given: neither null nor undefined nor empty
Given(x) == x.type \notin {"null", "undefined"} /\ x.v \notin {"", "0"}
InOptions(x) == x.type = "string" /\ x.v \in codexModels.OPTIONS

\* C20: the precedence is stored model, CLI model, default. A non-empty
\* stored model is returned with source 'storage'; otherwise a CLI model
\* among the options with source 'cli'; otherwise an unsupported CLI model
\* gives the default with source 'fallback' and modelSupported false;
\* otherwise the default with source 'default'. modelSupported is false in
\* the 'fallback' case only.
C20_ModelPrecedence ==
    modelRet.op = "resolveCodexModelPreference" =>
        LET r == modelRet.ret
        IN  /\ IF Given(storedModel)
               THEN r.model = storedModel /\ r.source = "storage"
               ELSE IF Given(cliModel) /\ InOptions(cliModel)
               THEN r.model = cliModel /\ r.source = "cli"
               ELSE IF Given(cliModel)
               THEN /\ r.model = JsString(codexModels.DEFAULT)
                    /\ r.source = "fallback"
               ELSE /\ r.model = JsString(codexModels.DEFAULT)
                    /\ r.source = "default"
            /\ ~r.modelSupported <=> r.source = "fallback"

\* no stored model and a CLI model that is no option: the fallback
C20_Witness ==
    /\ modelRet.op = "resolveCodexModelPreference"
    /\ storedModel = JsNull
    /\ cliModel = JsString("gpt-9999")
    /\ modelRet.ret.source = "fallback"
    /\ ~modelRet.ret.modelSupported
    /\ modelRet.ret.model = JsString(codexModels.DEFAULT)

----------------------------------------------------------------------------
(* queryCodex, abortCodexSession, isCodexSessionActive *)

\* concurrent queryCodex calls, and events one call's stream delivers
NumQueries == 2
MaxEvents == 2

Queries == 1..NumQueries
ThreadIds == {"s1", "s2"}
\* SDK events: two the loop skips, two it forwards
EventTypes == {"item.started", "item.updated", "item.completed", "turn.completed"}

\* activeCodexSessions.get(id) is undefined
NoEntry == [status |-> "none", owner |-> 0]
\* a queryCodex call: where it is, the session it resumed, the events it
\* received and the 'codex-response' messages it sent; whether another call
\* ran for the same id in its time, whether the session was aborted while
\* it streamed and whether it sent a response after that
NoQuery == [pc |-> "idle", sid |-> None, events |-> 0, sent |-> 0,
            shared |-> FALSE, aborted |-> FALSE, sentAfterAbort |-> FALSE]
NoAbort == [op |-> "none"]

QueryIdle ==
    /\ activeCodexSessions = [id \in ThreadIds |-> NoEntry]
    /\ queries = [c \in Queries |-> NoQuery]
    /\ abortRet = NoAbort

\* session?.status === 'running'
IsRunning(session) == session.status = "running"
isCodexSessionActive(sessionId) == IsRunning(activeCodexSessions[sessionId])

Streaming(c, id) == queries[c].pc = "streaming" /\ queries[c].sid = id

\* queryCodex up to `await thread.runStreamed(command)`: the thread is
\* resumed and the session is tracked under its id
QueryStart(c) ==
    /\ queries[c].pc = "idle"
    /\ \E sessionId \in ThreadIds :
          /\ activeCodexSessions' =
                 [activeCodexSessions EXCEPT
                     ![sessionId] = [status |-> "running", owner |-> c]]
          /\ queries' =
                 [d \in Queries |->
                     IF d = c
                     THEN [NoQuery EXCEPT
                              !.pc = "streaming", !.sid = sessionId,
                              !.shared = \E e \in Queries : Streaming(e, sessionId)]
                     ELSE IF Streaming(d, sessionId)
                     THEN [queries[d] EXCEPT !.shared = TRUE]
                     ELSE queries[d]]
    /\ abortRet' = NoAbort
    /\ UNCHANGED besidesQuery

\* the `finally` of queryCodex: the entry tracked under the id is completed
Completed(map, id) ==
    IF map[id] = NoEntry THEN map ELSE [map EXCEPT ![id].status = "completed"]

\* the stream delivers an event: the loop leaves if the session is gone or
\* aborted, skips item.started and item.updated, forwards the others
StreamEvent(c) ==
    /\ queries[c].pc = "streaming"
    /\ queries[c].events < MaxEvents
    /\ \E type \in EventTypes :
         LET session == activeCodexSessions[queries[c].sid]
         IN  IF session = NoEntry \/ session.status = "aborted"
             THEN /\ activeCodexSessions' =
                         Completed(activeCodexSessions, queries[c].sid)
                  /\ queries' = [queries EXCEPT ![c].pc = "done"]
             ELSE IF type \in {"item.started", "item.updated"}
             THEN /\ queries' = [queries EXCEPT ![c].events = @ + 1]
                  /\ UNCHANGED activeCodexSessions
             ELSE /\ queries' = [queries EXCEPT
                                   ![c].events = @ + 1,
                                   ![c].sent = @ + 1,
                                   ![c].sentAfterAbort = queries[c].aborted]
                  /\ UNCHANGED activeCodexSessions
    /\ abortRet' = NoAbort
    /\ UNCHANGED besidesQuery

\* the stream ends or throws: 'codex-complete' or 'codex-error', `finally`
StreamEnd(c) ==
    /\ queries[c].pc = "streaming"
    /\ activeCodexSessions' = Completed(activeCodexSessions, queries[c].sid)
    /\ queries' = [queries EXCEPT ![c].pc = "done"]
    /\ abortRet' = NoAbort
    /\ UNCHANGED besidesQuery

\* the caller has its answer
QueryReturn(c) ==
    /\ queries[c].pc = "done"
    /\ queries' = [queries EXCEPT ![c] = NoQuery]
    /\ abortRet' = NoAbort
    /\ UNCHANGED <<activeCodexSessions, besidesQuery>>

abortCodexSession(sessionId) ==
    /\ abortRet' = [op |-> "abortCodexSession", sid |-> sessionId,
                    ret |-> activeCodexSessions[sessionId] # NoEntry,
                    before |-> activeCodexSessions]
    /\ IF activeCodexSessions[sessionId] = NoEntry
       THEN UNCHANGED <<activeCodexSessions, queries>>
       ELSE /\ activeCodexSessions' =
                   [activeCodexSessions EXCEPT ![sessionId].status = "aborted"]
            /\ queries' =
                   [c \in Queries |->
                       IF Streaming(c, sessionId) /\ isCodexSessionActive(sessionId)
                       THEN [queries[c] EXCEPT !.aborted = TRUE]
                       ELSE queries[c]]
    /\ UNCHANGED besidesQuery

\* the five-minute interval removes an old entry that is not running
CleanUp ==
    /\ \E id \in ThreadIds :
          /\ activeCodexSessions[id].status \in {"completed", "aborted"}
          /\ activeCodexSessions' = [activeCodexSessions EXCEPT ![id] = NoEntry]
    /\ abortRet' = NoAbort
    /\ UNCHANGED <<queries, besidesQuery>>

QueryCodex == \E c \in Queries : QueryStart(c)
QueryEvent == \E c \in Queries : StreamEvent(c)
QueryEnd == \E c \in Queries : StreamEnd(c)
QueryDone == \E c \in Queries : QueryReturn(c)
AbortCodexSession == \E id \in ThreadIds : abortCodexSession(id)

QueryNext ==
    \/ QueryCodex
    \/ QueryEvent
    \/ QueryEnd
    \/ QueryDone
    \/ AbortCodexSession
    \/ CleanUp


----------------------------------------------------------------------------
(* Claims about the Codex sessions in progress *)

\* some call for the id is streaming and the session was not aborted under it
StreamsUnaborted(id) ==
    \E c \in Queries : Streaming(c, id) /\ ~queries[c].aborted

\* C21: for every interleaving of queryCodex calls, two calls that resume
\* the same id included, isCodexSessionActive(id) is true as long as a call
\* for id is streaming and has not been aborted, and false once all of them
\* have finished.
C21_ActiveWhileStreaming ==
    \A id \in ThreadIds : isCodexSessionActive(id) <=> StreamsUnaborted(id)

\* the same for the ids that no two calls used at the same time
C21_ActiveUnshared ==
    \A id \in ThreadIds :
        (\A c \in Queries : Streaming(c, id) => ~queries[c].shared)
        => (isCodexSessionActive(id) <=> StreamsUnaborted(id))

\* C22: once abortCodexSession(id) has returned true for a running session,
\* the session's queryCodex call sends no further 'codex-response' and
\* leaves its loop at the next event; for an id that is not tracked
\* abortCodexSession returns false and changes nothing.
C22_AbortStopsStream ==
    /\ \A c \in Queries : ~queries[c].sentAfterAbort
    /\ (abortRet.op = "abortCodexSession"
            /\ abortRet.before[abortRet.sid] = NoEntry)
       => ~abortRet.ret /\ activeCodexSessions = abortRet.before

\* the same for the calls that had their id to themselves
C22_AbortStopsUnshared ==
    /\ \A c \in Queries : queries[c].sentAfterAbort => queries[c].shared
    /\ (abortRet.op = "abortCodexSession"
            /\ abortRet.before[abortRet.sid] = NoEntry)
       => ~abortRet.ret /\ activeCodexSessions = abortRet.before

----------------------------------------------------------------------------
(* createCliResponder and the /mcp/cli routes *)

\* 'close' and 'error' events one child process emits
MaxProcEvents == 3

CliRoutes == {"list", "add", "remove", "get"}
\* close with exit code 0 or another code; error with code ENOENT or another
ProcEventKinds == {"close-0", "close-1", "error-ENOENT", "error-EACCES"}

\* the status the route's handler passes to respond for an event
StatusFor(route, event) ==
    IF event = "close-0" THEN 200
    ELSE IF event = "close-1"
    THEN (IF route = "list" THEN 500 ELSE IF route = "get" THEN 404 ELSE 400)
    ELSE IF event = "error-ENOENT" THEN 503
    ELSE 500

ResponderIdle ==
    /\ cliRoute = "list"
    /\ responded = FALSE
    /\ headersSent = FALSE
    /\ responses = << >>
    /\ procEvents = << >>

\* the request has reached its route and the child is spawned
ResponderInit ==
    /\ cliRoute \in CliRoutes
    /\ responded = FALSE
    /\ headersSent = FALSE
    /\ responses = << >>
    /\ procEvents = << >>

NeverAnswered(flag, sent) == FALSE
\* if (responded || res.headersSent) return;
AlreadyAnswered(flag, sent) == flag \/ sent

\* respond(status, payload)
respond(status) ==
    IF AlreadyAnswered(responded, headersSent)
    THEN UNCHANGED <<responded, headersSent, responses>>
    ELSE /\ responded' = TRUE
         /\ headersSent' = TRUE
         /\ responses' = Append(responses, status)

\* proc.on('close', ...)
ProcClose ==
    /\ Len(procEvents) < MaxProcEvents
    /\ \E event \in {"close-0", "close-1"} :
          /\ procEvents' = Append(procEvents, event)
          /\ respond(StatusFor(cliRoute, event))
    /\ UNCHANGED <<cliRoute, besidesResponder>>

\* proc.on('error', ...)
ProcError ==
    /\ Len(procEvents) < MaxProcEvents
    /\ \E event \in {"error-ENOENT", "error-EACCES"} :
          /\ procEvents' = Append(procEvents, event)
          /\ respond(StatusFor(cliRoute, event))
    /\ UNCHANGED <<cliRoute, besidesResponder>>

ResponderNext ==
    \/ ProcClose
    \/ ProcError


----------------------------------------------------------------------------
(* handleShellConnection and the PTY sessions (server/index.js)

   Every socket of the model sends its 'init' message for the same
   ptySessionKey, so ptySessionsMap holds at most one entry.  A session object
   is identified by its PTY: the handlers read the entry the map holds at the
   time they run, and the timer's closure keeps the session it was set for. *)

NumSockets == 3
MaxPtys == 2
MaxTimers == 2

Sockets == 1 .. NumSockets
PtyIds == 1 .. MaxPtys
TimerIds == 1 .. MaxTimers

\* client is history: the socket whose 'init' reached the session last
NoPtySession == [present |-> FALSE, pty |-> 0, ws |-> 0, timeoutId |-> 0,
                 client |-> 0]

NewSocket == [state |-> "unborn", pc |-> "new", ptySessionKey |-> FALSE,
              shellProcess |-> 0]

NoPty == [state |-> "unspawned", creator |-> 0]

NoTimer == [state |-> "unset", pty |-> 0]

NoPtyLog == [tornDown |-> FALSE, staleClose |-> FALSE, overwritten |-> FALSE]

PtyIdle ==
    /\ ptySessionsMap = NoPtySession
    /\ shellSockets = [s \in Sockets |-> NewSocket]
    /\ ptyTimers = [t \in TimerIds |-> NoTimer]
    /\ ptys = [g \in PtyIds |-> NoPty]
    /\ ptyLog = NoPtyLog

LiveIdle == QueryIdle /\ ResponderIdle /\ PtyIdle

IsOpen(s) == s \in Sockets /\ shellSockets[s].state = "open"

\* the session has a connected client: the socket that attached last is open
HasClient ==
    /\ ptySessionsMap.present
    /\ IsOpen(ptySessionsMap.client)

Spawned == {g \in PtyIds : ptys[g].state # "unspawned"}

TimersMade == {t \in TimerIds : ptyTimers[t].state # "unset"}

\* the timers that will fire
pendingTimers == {t \in TimerIds : ptyTimers[t].state = "pending"}

\* clearTimeout(id): a null id, or one that fired or was cleared, is ignored
clearTimeout(timers, id) ==
    IF id \in TimerIds /\ timers[id].state = "pending"
    THEN [timers EXCEPT ![id].state = "cleared"]
    ELSE timers

\* pty.kill(): the process ends, its exit event comes later
kill(procs, g) ==
    IF g \in PtyIds /\ procs[g].state = "alive"
    THEN [procs EXCEPT ![g].state = "killed"]
    ELSE procs

\* new WebSocket connection on /shell: handleShellConnection(ws)
ShellConnect(s) ==
    /\ shellSockets[s].state = "unborn"
    /\ shellSockets' = [shellSockets EXCEPT ![s].state = "open"]
    /\ UNCHANGED <<ptySessionsMap, ptyTimers, ptys, ptyLog, besidesPty>>

\* the entry a login command leaves: the old session is killed and dropped
AfterLoginCleanup(isLoginCommand) ==
    IF isLoginCommand /\ ptySessionsMap.present THEN NoPtySession
    ELSE ptySessionsMap

\* the 'init' message up to the reconnect's return or the await of node-pty
ShellInit(s, isLoginCommand) ==
    /\ IsOpen(s)
    /\ shellSockets[s].pc = "new"
    /\ LET oldSession == ptySessionsMap
           cleaned == isLoginCommand /\ oldSession.present
           existingSession == AfterLoginCleanup(isLoginCommand)
       IN IF existingSession.present
          THEN /\ shellSockets' = [shellSockets EXCEPT
                      ![s].ptySessionKey = TRUE,
                      ![s].pc = "ready",
                      ![s].shellProcess = existingSession.pty]
               /\ ptyTimers' =
                      clearTimeout(ptyTimers, existingSession.timeoutId)
               /\ ptySessionsMap' = [existingSession EXCEPT !.ws = s, !.client = s]
               /\ UNCHANGED ptys
          ELSE /\ shellSockets' = [shellSockets EXCEPT
                      ![s].ptySessionKey = TRUE,
                      ![s].pc = "spawning"]
               /\ ptyTimers' =
                      IF cleaned
                      THEN clearTimeout(ptyTimers, oldSession.timeoutId)
                      ELSE ptyTimers
               /\ ptys' = IF cleaned THEN kill(ptys, oldSession.pty) ELSE ptys
               /\ ptySessionsMap' = existingSession
    /\ UNCHANGED <<ptyLog, besidesPty>>

\* the 'init' message after the await: spawn and ptySessionsMap.set, or the
\* return when node-pty is missing
ShellSpawned(s, loaded) ==
    /\ shellSockets[s].pc = "spawning"
    /\ IF loaded
       THEN /\ Spawned # PtyIds
            /\ LET g == CHOOSE x \in PtyIds \ Spawned :
                            \A y \in PtyIds \ Spawned : x <= y
               IN /\ ptys' = [ptys EXCEPT
                         ![g] = [state |-> "alive", creator |-> s]]
                  /\ shellSockets' = [shellSockets EXCEPT
                         ![s].pc = "ready", ![s].shellProcess = g]
                  /\ ptySessionsMap' = [present |-> TRUE, pty |-> g, ws |-> s,
                                        timeoutId |-> 0, client |-> s]
                  /\ ptyLog' = [ptyLog EXCEPT
                         !.overwritten = @ \/ ptySessionsMap.present]
       ELSE /\ shellSockets' = [shellSockets EXCEPT ![s].pc = "ready"]
            /\ UNCHANGED <<ptys, ptySessionsMap, ptyLog>>
    /\ UNCHANGED <<ptyTimers, besidesPty>>

\* the guard of the close handler: the socket sent 'init' and the map holds a
\* session under its key
ClosingOwnSession(s) ==
    /\ shellSockets[s].ptySessionKey
    /\ ptySessionsMap.present

\* ws.on('close')
ShellClose(s) ==
    /\ IsOpen(s)
    /\ shellSockets' = [shellSockets EXCEPT ![s].state = "closed"]
    /\ IF ClosingOwnSession(s)
       THEN /\ TimersMade # TimerIds
            /\ LET t == CHOOSE x \in TimerIds \ TimersMade :
                            \A y \in TimerIds \ TimersMade : x <= y
               IN /\ ptySessionsMap' = [ptySessionsMap EXCEPT
                         !.ws = 0, !.timeoutId = t]
                  /\ ptyTimers' = [ptyTimers EXCEPT ![t] =
                         [state |-> "pending", pty |-> ptySessionsMap.pty]]
            /\ ptyLog' = [ptyLog EXCEPT
                   !.staleClose = @ \/ ptySessionsMap.ws # s]
       ELSE UNCHANGED <<ptySessionsMap, ptyTimers, ptyLog>>
    /\ UNCHANGED <<ptys, besidesPty>>

\* the callback of the setTimeout of the close handler
PtyTimeout(t) ==
    /\ t \in pendingTimers
    /\ ptyTimers' = [ptyTimers EXCEPT ![t].state = "fired"]
    /\ ptys' = kill(ptys, ptyTimers[t].pty)
    /\ ptySessionsMap' = NoPtySession
    /\ ptyLog' = [ptyLog EXCEPT !.tornDown = @ \/ HasClient]
    /\ UNCHANGED <<shellSockets, besidesPty>>

\* shellProcess.onExit
PtyExit(g) ==
    /\ ptys[g].state \in {"alive", "killed"}
    /\ ptys' = [ptys EXCEPT ![g].state = "exited"]
    /\ ptyTimers' =
           IF ptySessionsMap.present
           THEN clearTimeout(ptyTimers, ptySessionsMap.timeoutId)
           ELSE ptyTimers
    /\ ptySessionsMap' = NoPtySession
    /\ shellSockets' = [shellSockets EXCEPT
           ![ptys[g].creator].shellProcess = 0]
    /\ UNCHANGED <<ptyLog, besidesPty>>

HandleShellConnection == \E s \in Sockets : ShellConnect(s)

ShellInitMessage == \E s \in Sockets, isLoginCommand \in BOOLEAN :
                        ShellInit(s, isLoginCommand)

ShellSpawnDone == \E s \in Sockets, loaded \in BOOLEAN : ShellSpawned(s, loaded)

ShellSocketClose == \E s \in Sockets : ShellClose(s)

PtySessionTimeout == \E t \in pendingTimers : PtyTimeout(t)

ShellProcessExit == \E g \in PtyIds : PtyExit(g)

PtyNext ==
    \/ HandleShellConnection
    \/ ShellInitMessage
    \/ ShellSpawnDone
    \/ ShellSocketClose
    \/ PtySessionTimeout
    \/ ShellProcessExit

----------------------------------------------------------------------------
(* Claims about the PTY sessions *)

\* C29: a PTY session with a connected client is never torn down by the idle
\* timeout: in every interleaving of connects and closes on one session key
\* no kill timer is pending while the session has a connected client, the
\* session still names that client (the close of an earlier socket has not
\* detached it), and no timer has fired on a session with a connected client.
C29_AttachedNeverTimedOut ==
    /\ HasClient => /\ pendingTimers = {}
                    /\ ptySessionsMap.ws = ptySessionsMap.client
    /\ ~ptyLog.tornDown

\* C29, the part that holds: as long as every socket that closed was the one
\* its session named and no spawn replaced an entry of the map, no timer is
\* pending or fires while a client is attached.
C29_SerialClientsSafe ==
    (~ptyLog.staleClose /\ ~ptyLog.overwritten) => C29_AttachedNeverTimedOut

----------------------------------------------------------------------------
(* Claims about the CLI responder *)

\* C28: for every order and number of the child's 'close' and 'error'
\* events the responder writes at most one response, and the response
\* written is that of the first event.
C28_OneResponse ==
    /\ Len(responses) <= 1
    /\ procEvents # << >> => responses = <<StatusFor(cliRoute, procEvents[1])>>
    /\ procEvents = << >> => responses = << >>

\* 'error' for a missing CLI, then 'close': the one response is the 503
C28_Witness ==
    /\ procEvents = <<"error-ENOENT", "close-1", "close-1">>
    /\ responses = <<503>>
    /\ responded /\ headersSent

PathsIdle == pathA = << >> /\ pathB = << >> /\ pathRet = [op |-> "none"]

StoreIdle == StoreInit

InitPaths == PathsInit /\ StoreIdle /\ ResolveIdle /\ CacheIdle /\ ModelIdle /\ LiveIdle

SpecPaths == InitPaths /\ [][PathsNext]_vars

InitDelete == StoreInit /\ PathsIdle /\ ResolveIdle /\ CacheIdle /\ ModelIdle /\ LiveIdle

SpecDelete == InitDelete /\ [][DeleteNext]_vars

InitMessages == StoreInit /\ PathsIdle /\ ResolveIdle /\ CacheIdle /\ ModelIdle /\ LiveIdle

SpecMessages == InitMessages /\ [][MessagesNext]_vars

InitSessions == StoreInit /\ PathsIdle /\ ResolveIdle /\ CacheIdle /\ ModelIdle /\ LiveIdle

SpecSessions == InitSessions /\ [][SessionsNext]_vars

\* the project's log a.jsonl holds no line or HistoryLines lines at the start
InitResolve ==
    /\ \E n \in {0, HistoryLines} :
          /\ files = [f \in FileSet |->
                         IF f = "a.jsonl" /\ n > 0
                         THEN [i \in 1..n |-> HistoryLine] \o <<EmptyLine>>
                         ELSE << >>]
          /\ mtimeOrder = IF n > 0 THEN <<"a.jsonl">> ELSE << >>
    /\ call = NoCall
    /\ codexFiles = [f \in CodexFileSet |-> << >>]
    /\ PathsIdle
    /\ ResolveIdle
    /\ CacheIdle
    /\ ModelIdle /\ LiveIdle

SpecResolve == InitResolve /\ [][ResolveNext]_vars

\* the watcher's timer fires when due and its refresh returns
SpecResolveFair ==
    InitResolve /\ [][ResolveNext]_vars
        /\ WF_vars(WatcherFire) /\ WF_vars(WatcherDone)

InitCache == StoreInit /\ PathsIdle /\ ResolveIdle /\ CacheIdle /\ ModelIdle /\ LiveIdle

SpecCache == InitCache /\ [][CacheNext]_vars

InitModel == ModelInit /\ StoreIdle /\ PathsIdle /\ ResolveIdle /\ CacheIdle /\ LiveIdle

SpecModel == InitModel /\ [][ModelNext]_vars

InitQuery ==
    /\ QueryIdle /\ ResponderIdle /\ PtyIdle
    /\ StoreIdle /\ PathsIdle /\ ResolveIdle /\ CacheIdle /\ ModelIdle

SpecQuery == InitQuery /\ [][QueryNext]_vars

InitResponder ==
    /\ ResponderInit /\ QueryIdle /\ PtyIdle
    /\ StoreIdle /\ PathsIdle /\ ResolveIdle /\ CacheIdle /\ ModelIdle

SpecResponder == InitResponder /\ [][ResponderNext]_vars

InitPty ==
    /\ PtyIdle /\ QueryIdle /\ ResponderIdle
    /\ StoreIdle /\ PathsIdle /\ ResolveIdle /\ CacheIdle /\ ModelIdle

SpecPty == InitPty /\ [][PtyNext]_vars

====
